---- MODULE Spec2Model ----
(***************************************************************************)
(* State-machine model of RemoteZappy's gesture recognition engine         *)
(* (gesture_control/recognizer.py): the recognize() loop run by one worker *)
(* thread, stop()/close() called from other threads, and the arbiter that  *)
(* turns per-gesture probabilities into a label.                           *)
(*                                                                         *)
(* Probabilities are fixed-point numbers in hundredths (80 is 0.80).       *)
(* Sequences are 1-based: Python index i is index i+1 here, so the         *)
(* "unknown" class index len(gestures) is Len(gestures) + 1.               *)
(***************************************************************************)
EXTENDS Integers, Sequences, FiniteSets, TLC

(* ------------------------------ bounds --------------------------------- *)
\* threads that call stop() / close() on the engine
NumCtrl == 2
\* longest gesture list fed to the arbiter on its own
ArbMaxGestures == 3
\* most entries in a dataset root handed to the constructor
CtorMaxEntries == 3
\* most copies of one kind of sample in an audited directory
AuditMaxCopies == 2
\* size of the large audited directories
AuditBigDir == 20
\* most copies of one kind of sample in a pruned directory
PruneMaxCopies == 1
\* largest offset, per coordinate, by which a sample is translated
PrepMaxShift == 1
\* largest factor by which a sample is rescaled
PrepMaxScale == 3
\* most gestures in a dataset a training set is built from
BuildMaxGestures == 4
\* largest negative_ratio
BuildMaxRatio == 2
\* gestures the meta classifier is trained on
MetaMaxGestures == 2
\* worker threads the game starts, the last clock reading (tenths of a
\* second) and the labels the gesture queue holds
GameMaxWorkers == 2
GameMaxTime == 17
GameMaxQueue == 2
\* entries a command sequence grows to between two cast attempts
SpellMaxLen == 4
\* messages the frame pipe receives and synthetic frames recv falls back to
BridgeMaxMessages == 7
BridgeMaxSynthetic == 2

Ctrl == 1..NumCtrl

(* --------------------------- program constants ------------------------- *)
CONFIDENCE_THRESHOLD == 80
CONFUSION_THRESHOLD == 15
\* gesture_integrity.py defaults; the zero ratio threshold is in hundredths
\* main.py: GESTURE_DEBOUNCE_TIME = 0.7 seconds, in tenths of a second
GESTURE_DEBOUNCE_TIME == 7
\* main.py: PLAYER_MANA = 50, MANA_REGEN = 5 per second
PLAYER_MANA == 50
MANA_REGEN == 5
\* bridge.py: asyncio.Queue(maxsize=4)
FRAME_QUEUE_MAXSIZE == 4
ZERO_LANDMARKS_THRESHOLD == 5
MEAN_LANDMARKS_THRESHOLD == 5
STD_LANDMARKS_THRESHOLD == 6
\* mlp.py
EXPECTED_FEATURE_DIM == 84
\* synthetic negatives of GestureDataset: noise_samples, zero_vector_samples
NOISE_SAMPLES == 20
ZERO_VECTOR_SAMPLES == 10
\* synthetic "unknown" samples of train_meta_classifier: noise, zero vectors
META_NOISE_SAMPLES == 50
META_ZERO_SAMPLES == 20

\* None as a label, and None in place of a result tuple
None == "None"
NoResult == <<>>
Unknown == "unknown"

\* Game.open_gesture_studio: the gestures the game collects samples for
RequiredGestures == <<"fire", "ice", "projectile", "shield", "magnify">>

(* ------------------------------ helpers -------------------------------- *)
Range(s) == {s[i] : i \in DOMAIN s}

\* all sequences of length n over the set S
Vectors(n, S) == [1..n -> S]

\* np.argmax: index of the first occurrence of the maximum
Argmax(v) ==
    CHOOSE i \in DOMAIN v :
        /\ \A j \in DOMAIN v : v[j] <= v[i]
        /\ \A j \in DOMAIN v : j < i => v[j] < v[i]

\* insert x into the descending sequence s
RECURSIVE InsertDesc(_, _)
InsertDesc(x, s) ==
    IF s = <<>> THEN <<x>>
    ELSE IF x >= Head(s) THEN <<x>> \o s
    ELSE <<Head(s)>> \o InsertDesc(x, Tail(s))

\* sorted(v, reverse=True)
RECURSIVE SortedDesc(_)
SortedDesc(v) ==
    IF v = <<>> THEN <<>> ELSE InsertDesc(Head(v), SortedDesc(Tail(v)))

(* ------------------------------ arbiter -------------------------------- *)
\* learned arbiter that takes the last gesture for the "unknown" class
MetaDecide_mut(gs, meta_probs) ==
    LET best_idx == Argmax(meta_probs)
    IN  IF best_idx >= Len(gs) THEN Unknown ELSE gs[best_idx]

\* learned arbiter: label from the argmax of the meta distribution
MetaDecide(gs, meta_probs) ==
    LET best_idx == Argmax(meta_probs)
    IN  IF best_idx = Len(gs) + 1 THEN Unknown ELSE gs[best_idx]

\* rule-based arbiter with a shifted confidence comparison
FallbackDecide_mut(gs, gesture_probs) ==
    LET best_idx == Argmax(gesture_probs)
        best_prob == gesture_probs[best_idx]
        sorted_probs == SortedDesc(gesture_probs)
        second_best_prob == IF Len(sorted_probs) > 1 THEN sorted_probs[2] ELSE 0
    IN  IF best_prob <= CONFIDENCE_THRESHOLD THEN Unknown
        ELSE IF (best_prob - second_best_prob) < CONFUSION_THRESHOLD THEN Unknown
        ELSE gs[best_idx]

\* rule-based arbiter used when no meta classifier was loaded
FallbackDecide(gs, gesture_probs) ==
    LET best_idx == Argmax(gesture_probs)
        best_prob == gesture_probs[best_idx]
        sorted_probs == SortedDesc(gesture_probs)
        second_best_prob == IF Len(sorted_probs) > 1 THEN sorted_probs[2] ELSE 0
    IN  IF best_prob < CONFIDENCE_THRESHOLD THEN Unknown
        ELSE IF (best_prob - second_best_prob) < CONFUSION_THRESHOLD THEN Unknown
        ELSE gs[best_idx]

\* np.argmax([]) raises ValueError: the rule-based branch fails on an engine
\* without gestures
DecideRaises(gs, has_meta) == ~has_meta /\ Len(gs) = 0

\* the label decided for one frame
DecideLabel(gs, has_meta, gesture_probs, meta_out) ==
    IF has_meta THEN MetaDecide(gs, meta_out) ELSE FallbackDecide(gs, gesture_probs)

\* the diagnostic probabilities reported with the label
DecideMetaProbs(has_meta, gesture_probs, meta_out) ==
    IF has_meta THEN meta_out ELSE gesture_probs

MetaClasses(gs) == gs \o <<Unknown>>

(* ----------------------------- construction ---------------------------- *)
\* the directory name __init__ leaves out of the gesture list
Reserved == "metaclassifier"

\* [g for g in os.listdir(dataset_dir) if isdir(g) and g != 'metaclassifier'],
\* in listing order; listing is a sequence of entries [name, isdir]
RECURSIVE GestureDirs(_)
GestureDirs(listing) ==
    IF listing = <<>> THEN <<>>
    ELSE LET e == Head(listing)
             rest == GestureDirs(Tail(listing))
         IN  IF e.isdir /\ e.name # Reserved THEN <<e.name>> \o rest ELSE rest

\* a loader that leaves out the gestures whose model file is missing
load_gesture_models_mut(gs, files) ==
    [ok |-> TRUE, models |-> Range(gs) \cap files]

\* _load_gesture_models: load_model for every gesture; torch.load raises on
\* a missing file and nothing catches it
load_gesture_models(gs, files) ==
    IF \E i \in DOMAIN gs : gs[i] \notin files
    THEN [ok |-> FALSE, models |-> {}]
    ELSE [ok |-> TRUE, models |-> Range(gs)]

\* load_meta_classifier inside try/except: TRUE iff a classifier was loaded
TryLoadMeta(meta_ok) == meta_ok

\* GestureRecognizer.__init__ on a dataset root (its listing) and a models
\* directory (the gestures that have a model file, and whether the meta
\* classifier loads): the engine built, or raised = TRUE
Construct(root) ==
    LET gs == GestureDirs(root.listing)
        loaded == load_gesture_models(gs, root.model_files)
    IN  IF ~loaded.ok
        THEN [raised |-> TRUE, gestures |-> <<>>, models |-> {},
              meta_classifier |-> FALSE]
        ELSE [raised |-> FALSE, gestures |-> gs, models |-> loaded.models,
              meta_classifier |-> TryLoadMeta(root.meta_ok)]

(* ------------------------------- state --------------------------------- *)
VARIABLES
    gestures,         \* self.gestures, fixed at construction
    meta_classifier,  \* TRUE iff self.meta_classifier is not None
    running,          \* self._running
    closedEvt,        \* self._window_closed_event.is_set()
    last_result,      \* self._last_result
    capOpen,          \* the cv2.VideoCapture handle of this call is open
    srcDead,          \* the frame source has failed for good
    wpc,              \* position of the thread running recognize()
    args,             \* arguments of the current recognize() call
    ret,              \* ret of the last cap.read()
    label,            \* local: label
    gesture_probs,    \* local: gesture_probs
    meta_probs,       \* local: meta_probs
    cpc,              \* position of each thread calling stop() / close()
    acq,              \* history: frame sources acquired by the current call
    rel,              \* history: releases of the frame source by the current call
    cbCount,          \* history: on_frame invocations in the current iteration
    ogCount,          \* history: on_gesture invocations in the current iteration
    cbView,           \* history: what the last callback was passed and what
                      \*   get_last_result() returned inside it
    lastFrame,        \* history: result of the most recently processed frame
    closeCalled,      \* history: some close() call has returned
    arb,              \* the arbiter applied on its own to one input
    ctor,             \* the constructor applied to one dataset root
    audit,            \* the integrity checks applied to one sample directory
    prep,             \* preprocess_gesture applied to one input
    build,            \* the training sets built from one dataset
    train,            \* one run of the meta classifier's training script
    game,             \* the game's gesture thread, its queue and its workers
    spell,            \* the command sequence and the player's mana
    bridge,           \* FRAME_QUEUE of the streaming bridge and its two ends
    stopReturned      \* history, kept where it is asked for: "yes" when a
                      \* stop() has returned and no recognize() has since

engineVars == <<gestures, meta_classifier, running, closedEvt, last_result,
                capOpen, srcDead>>
workerVars == <<wpc, args, ret, label, gesture_probs, meta_probs>>
histVars == <<acq, rel, cbCount, ogCount, cbView, lastFrame, closeCalled>>
unitVars == <<ctor, audit, prep, build, train, game, spell, bridge>>
vars == <<engineVars, workerVars, cpc, histVars, arb, unitVars, stopReturned>>

(* ------------------------------ inputs --------------------------------- *)
\* gesture list of the engine whose loop is run
EngineGestures == {<<"fire", "ice">>}

\* output of the meta classifier in which class k wins
PeakDist(n, k) == [i \in 1..n |-> IF i = k THEN 100 - 10 * (n - 1) ELSE 10]

\* what the models make of the frames the loop sees: per-gesture outputs gp
\* and meta classifier output mo, for a frame showing the first gesture and
\* a frame showing none
LoopFrames ==
    { [gp |-> <<90, 10>>, mo |-> PeakDist(3, 1)],
      [gp |-> <<10, 10>>, mo |-> PeakDist(3, 3)] }

\* the calls recognize(callback, show_window, on_gesture) that are made:
\* with both callbacks, and as main.py calls it (on_gesture alone)
ArgSets ==
    { [callback |-> TRUE,  show_window |-> TRUE, on_gesture |-> TRUE],
      [callback |-> FALSE, show_window |-> TRUE, on_gesture |-> TRUE] }

NoArgs == [callback |-> FALSE, show_window |-> FALSE, on_gesture |-> FALSE]
NoView == [arg |-> NoResult, seen |-> NoResult]
ArbIdle == [pc |-> "off"]
Off == [pc |-> "off"]

\* the dataset roots and models directories the running engine is built
\* from: both gestures trained, the meta classifier loadable or not
EngineRoots ==
    { [listing |-> <<[name |-> "fire", isdir |-> TRUE],
                     [name |-> "ice", isdir |-> TRUE],
                     [name |-> Reserved, isdir |-> TRUE]>>,
       model_files |-> {"fire", "ice"},
       meta_ok |-> m] : m \in BOOLEAN }

\* the result tuple built at line 170
ResultTuple(lbl, gp, mp, gs) == <<lbl, gp, mp, gs, MetaClasses(gs)>>

get_last_result == last_result

LoopPcs == {"while", "while_evt", "read", "process", "callback", "on_gesture",
            "show"}
FinallyPcs == {"fin_release", "fin_running", "fin_event"}

(* ------------------------------- Init ---------------------------------- *)
InitEngine ==
    /\ running = FALSE
    /\ closedEvt = FALSE
    /\ last_result = NoResult
    /\ capOpen = FALSE
    /\ srcDead = FALSE
    /\ wpc = "idle"
    /\ args = NoArgs
    /\ ret = FALSE
    /\ label = None
    /\ gesture_probs = <<>>
    /\ meta_probs = <<>>
    /\ cpc = [c \in Ctrl |-> "idle"]
    /\ acq = 0
    /\ rel = 0
    /\ cbCount = 0
    /\ ogCount = 0
    /\ cbView = NoView
    /\ lastFrame = NoResult
    /\ closeCalled = FALSE

\* the units that are checked on their own, at rest
MoreOff ==
    /\ train = Off
    /\ game = Off
    /\ spell = Off
    /\ bridge = Off

UnitsOff ==
    /\ ctor = Off
    /\ audit = Off
    /\ prep = Off
    /\ build = Off
    /\ MoreOff

\* the engine as __init__ leaves it
InitLoop ==
    /\ \E root \in EngineRoots :
         LET e == Construct(root)
         IN  /\ ~e.raised
             /\ gestures = e.gestures
             /\ meta_classifier = e.meta_classifier
    /\ gestures \in EngineGestures
    /\ InitEngine
    /\ arb = ArbIdle
    /\ UnitsOff

Init ==
    /\ InitLoop
    /\ stopReturned = "off"

\* the same engine, with the returns of stop() recorded
InitRace ==
    /\ InitLoop
    /\ stopReturned = "no"

(* --------------------- recognize(): the worker thread ------------------ *)
fixedVars == <<gestures, meta_classifier, arb, unitVars>>
constVars == <<fixedVars, stopReturned>>
flagVars == <<running, closedEvt>>
localVars == <<label, gesture_probs, meta_probs>>
capHist == <<acq, rel>>
iterHist == <<cbCount, ogCount, cbView>>

\* leave the loop for the finally block
ToFinally == wpc' = "fin_release"

\* recognize() is called: self._running = True
Start(a) ==
    /\ wpc = "idle"
    /\ wpc' = "clear"
    /\ args' = a
    /\ running' = TRUE
    /\ acq' = 0
    /\ rel' = 0
    /\ UNCHANGED <<constVars, closedEvt, last_result, capOpen, srcDead, ret,
                   localVars, cpc, iterHist, lastFrame, closeCalled>>

\* self._window_closed_event.clear()
ClearEvent ==
    /\ wpc = "clear"
    /\ wpc' = "open"
    /\ closedEvt' = FALSE
    /\ UNCHANGED <<constVars, running, last_result, capOpen, srcDead, args, ret,
                   localVars, cpc, capHist, iterHist, lastFrame,
                   closeCalled>>

\* cap = cv2.VideoCapture(0); with mp_hands.Hands(...) as hands (which may
\* raise): label = 'No hand'
OpenCap ==
    /\ wpc = "open"
    /\ capOpen' = TRUE
    /\ acq' = acq + 1
    /\ \E ok \in BOOLEAN :
        IF ok
        THEN /\ wpc' = "while"
             /\ label' = "No hand"
        ELSE /\ ToFinally
             /\ UNCHANGED label
    /\ UNCHANGED <<constVars, flagVars, last_result, srcDead, args, ret,
                   gesture_probs, meta_probs, cpc, rel, iterHist, lastFrame,
                   closeCalled>>

\* a loop test that does not read the flag
WhileRunning_mut ==
    /\ wpc = "while"
    /\ wpc' = "while_evt"
    /\ UNCHANGED <<constVars, flagVars, last_result, capOpen, srcDead, args, ret,
                   localVars, cpc, capHist, iterHist, lastFrame,
                   closeCalled>>

\* while self._running ...
WhileRunning ==
    /\ wpc = "while"
    /\ IF running
       THEN wpc' = "while_evt"
       ELSE ToFinally
    /\ UNCHANGED <<constVars, flagVars, last_result, capOpen, srcDead, args, ret,
                   localVars, cpc, capHist, iterHist, lastFrame, closeCalled>>

\* a loop test that does not read the closed event
WhileEvent_mut ==
    /\ wpc = "while_evt"
    /\ wpc' = "read"
    /\ UNCHANGED <<constVars, flagVars, last_result, capOpen, srcDead, args, ret,
                   localVars, cpc, capHist, iterHist, lastFrame, closeCalled>>

\* ... and not self._window_closed_event.is_set()
WhileEvent ==
    /\ wpc = "while_evt"
    /\ IF ~closedEvt
       THEN wpc' = "read"
       ELSE ToFinally
    /\ UNCHANGED <<constVars, flagVars, last_result, capOpen, srcDead, args, ret,
                   localVars, cpc, capHist, iterHist, lastFrame, closeCalled>>

\* a failed read that ends the loop
Read_mut ==
    /\ wpc = "read"
    /\ \E r \in (IF srcDead THEN {FALSE} ELSE BOOLEAN) :
        /\ ret' = r
        /\ IF r THEN wpc' = "process"
           ELSE ToFinally
    /\ cbCount' = 0
    /\ ogCount' = 0
    /\ cbView' = NoView
    /\ UNCHANGED <<constVars, flagVars, last_result, capOpen, srcDead, args,
                   localVars, cpc, capHist, lastFrame, closeCalled>>

\* ret, frame = cap.read(); if not ret: continue
\* (a dead source never delivers a frame)
Read ==
    /\ wpc = "read"
    /\ \E r \in (IF srcDead THEN {FALSE} ELSE BOOLEAN) :
        /\ ret' = r
        /\ wpc' = (IF r THEN "process" ELSE "while")
    /\ cbCount' = 0
    /\ ogCount' = 0
    /\ cbView' = NoView
    /\ UNCHANGED <<constVars, flagVars, last_result, capOpen, srcDead, args,
                   localVars, cpc, capHist, lastFrame, closeCalled>>

\* a loop body that decides with a meta classifier whatever __init__ loaded
Process_retry ==
    /\ wpc = "process"
    /\ \E ok \in BOOLEAN, f \in LoopFrames :
        IF ok /\ ~DecideRaises(gestures, meta_classifier)
        THEN /\ wpc' = "callback"
             /\ gesture_probs' = f.gp
             /\ label' = DecideLabel(gestures, TRUE, f.gp, f.mo)
             /\ meta_probs' = DecideMetaProbs(TRUE, f.gp, f.mo)
             /\ lastFrame' = ResultTuple(label', f.gp, meta_probs', gestures)
             /\ last_result' = ResultTuple(label', f.gp, meta_probs', gestures)
        ELSE /\ ToFinally
             /\ UNCHANGED <<localVars, lastFrame, last_result>>
    /\ UNCHANGED <<constVars, flagVars, capOpen, srcDead, args, ret, cpc,
                   capHist, iterHist, closeCalled>>

\* a loop body that stores only recognized gestures
Process_mut ==
    /\ wpc = "process"
    /\ \E ok \in BOOLEAN, f \in LoopFrames :
        IF ok /\ ~DecideRaises(gestures, meta_classifier)
        THEN /\ wpc' = "callback"
             /\ gesture_probs' = f.gp
             /\ label' = DecideLabel(gestures, meta_classifier, f.gp, f.mo)
             /\ meta_probs' = DecideMetaProbs(meta_classifier, f.gp, f.mo)
             /\ lastFrame' = ResultTuple(label', f.gp, meta_probs', gestures)
             /\ last_result' = (IF label' = Unknown THEN last_result
                                ELSE ResultTuple(label', f.gp, meta_probs', gestures))
        ELSE /\ ToFinally
             /\ UNCHANGED <<localVars, lastFrame, last_result>>
    /\ UNCHANGED <<constVars, flagVars, capOpen, srcDead, args, ret, cpc,
                   capHist, iterHist, closeCalled>>

\* landmarks, preprocessing, per-gesture inference, the arbiter and
\* self._last_result = (label, gesture_probs, meta_probs, self.gestures,
\* meta_classes); ok is FALSE when the processing raises
Process ==
    /\ wpc = "process"
    /\ \E ok \in BOOLEAN, f \in LoopFrames :
        IF ok /\ ~DecideRaises(gestures, meta_classifier)
        THEN /\ wpc' = "callback"
             /\ gesture_probs' = f.gp
             /\ label' = DecideLabel(gestures, meta_classifier, f.gp, f.mo)
             /\ meta_probs' = DecideMetaProbs(meta_classifier, f.gp, f.mo)
             /\ lastFrame' = ResultTuple(label', f.gp, meta_probs', gestures)
             /\ last_result' = ResultTuple(label', f.gp, meta_probs', gestures)
        ELSE /\ ToFinally
             /\ UNCHANGED <<localVars, lastFrame, last_result>>
    /\ UNCHANGED <<constVars, flagVars, capOpen, srcDead, args, ret, cpc,
                   capHist, iterHist, closeCalled>>

\* if callback: callback(...); the callback may call get_last_result() and
\* may raise
Callback ==
    /\ wpc = "callback"
    /\ IF args.callback
       THEN /\ cbCount' = cbCount + 1
            /\ cbView' = [arg |-> ResultTuple(label, gesture_probs, meta_probs, gestures),
                          seen |-> get_last_result]
            /\ \E ok \in BOOLEAN :
                IF ok THEN wpc' = "on_gesture"
                ELSE ToFinally
       ELSE /\ wpc' = "on_gesture"
            /\ UNCHANGED <<cbCount, cbView>>
    /\ UNCHANGED <<constVars, flagVars, last_result, capOpen, srcDead, args, ret,
                   localVars, cpc, capHist, ogCount, lastFrame, closeCalled>>

\* an on_gesture call that does not look at the label
OnGesture_mut ==
    /\ wpc = "on_gesture"
    /\ IF args.on_gesture
       THEN /\ ogCount' = ogCount + 1
            /\ cbView' = [arg |-> ResultTuple(label, gesture_probs, meta_probs, gestures),
                          seen |-> get_last_result]
            /\ \E ok \in BOOLEAN :
                IF ok THEN wpc' = "show"
                ELSE ToFinally
       ELSE /\ wpc' = "show"
            /\ UNCHANGED <<ogCount, cbView>>
    /\ UNCHANGED <<constVars, flagVars, last_result, capOpen, srcDead, args, ret,
                   localVars, cpc, capHist, cbCount, lastFrame, closeCalled>>

\* if on_gesture and label != 'unknown': on_gesture(...)
OnGesture ==
    /\ wpc = "on_gesture"
    /\ IF args.on_gesture /\ label # Unknown
       THEN /\ ogCount' = ogCount + 1
            /\ cbView' = [arg |-> ResultTuple(label, gesture_probs, meta_probs, gestures),
                          seen |-> get_last_result]
            /\ \E ok \in BOOLEAN :
                IF ok THEN wpc' = "show"
                ELSE ToFinally
       ELSE /\ wpc' = "show"
            /\ UNCHANGED <<ogCount, cbView>>
    /\ UNCHANGED <<constVars, flagVars, last_result, capOpen, srcDead, args, ret,
                   localVars, cpc, capHist, cbCount, lastFrame, closeCalled>>

\* a 'q' key that returns from recognize() at once, around the finally block
Show_mut ==
    /\ wpc = "show"
    /\ IF args.show_window
       THEN \E key \in {"q", "other", "raise"} :
              CASE key = "raise" -> ToFinally
                [] key = "q"     -> wpc' = "idle"
                [] OTHER         -> wpc' = "while"
       ELSE /\ wpc' = "while"
    /\ UNCHANGED <<constVars, flagVars, last_result, capOpen, srcDead, args, ret,
                   localVars, cpc, capHist, iterHist, lastFrame, closeCalled>>

\* if show_window: draw, imshow(...); if waitKey(1) & 0xFF == ord('q'): break
\* key is "q", "other", or "raise" when drawing fails
Show ==
    /\ wpc = "show"
    /\ IF args.show_window
       THEN \E key \in {"q", "other", "raise"} :
              CASE key = "raise" -> ToFinally
                [] key = "q"     -> ToFinally
                [] OTHER         -> wpc' = "while"
       ELSE /\ wpc' = "while"
    /\ UNCHANGED <<constVars, flagVars, last_result, capOpen, srcDead, args, ret,
                   localVars, cpc, capHist, iterHist, lastFrame, closeCalled>>

\* finally: cap.release(); cv2.destroyAllWindows()
FinRelease ==
    /\ wpc = "fin_release"
    /\ wpc' = "fin_running"
    /\ capOpen' = FALSE
    /\ rel' = rel + 1
    /\ UNCHANGED <<constVars, flagVars, last_result, srcDead, args, ret,
                   localVars, cpc, acq, iterHist, lastFrame, closeCalled>>

\* self._running = False
FinRunning ==
    /\ wpc = "fin_running"
    /\ wpc' = "fin_event"
    /\ running' = FALSE
    /\ UNCHANGED <<constVars, closedEvt, last_result, capOpen, srcDead, args,
                   ret, localVars, cpc, capHist, iterHist, lastFrame,
                   closeCalled>>

\* self._window_closed_event.set(); recognize() returns (or re-raises) and
\* its arguments and locals are gone
FinEvent ==
    /\ wpc = "fin_event"
    /\ wpc' = "idle"
    /\ closedEvt' = TRUE
    /\ args' = NoArgs
    /\ ret' = FALSE
    /\ label' = None
    /\ gesture_probs' = <<>>
    /\ meta_probs' = <<>>
    /\ cbCount' = 0
    /\ ogCount' = 0
    /\ cbView' = NoView
    /\ stopReturned' = (IF stopReturned = "off" THEN "off" ELSE "no")
    /\ UNCHANGED <<fixedVars, running, last_result, capOpen, srcDead, cpc,
                   capHist, lastFrame, closeCalled>>

(* ------------------ stop() and close(): the other threads -------------- *)
ctrlFrame == <<constVars, last_result, capOpen, srcDead, workerVars, acq, rel,
               cbCount, ogCount, cbView, lastFrame>>

\* stop(): self._running = False
StopRunning(c) ==
    /\ cpc[c] = "idle"
    /\ cpc' = [cpc EXCEPT ![c] = "stop_evt"]
    /\ running' = FALSE
    /\ UNCHANGED <<ctrlFrame, closedEvt, closeCalled>>

\* stop(): self._window_closed_event.set(); return
StopEvent(c) ==
    /\ cpc[c] = "stop_evt"
    /\ cpc' = [cpc EXCEPT ![c] = "idle"]
    /\ closedEvt' = TRUE
    /\ stopReturned' = (IF stopReturned = "off" THEN "off" ELSE "yes")
    /\ UNCHANGED <<fixedVars, last_result, capOpen, srcDead, workerVars, acq,
                   rel, cbCount, ogCount, cbView, lastFrame, running,
                   closeCalled>>

\* close(): self._running = False
CloseRunning(c) ==
    /\ cpc[c] = "idle"
    /\ cpc' = [cpc EXCEPT ![c] = "close_evt"]
    /\ running' = FALSE
    /\ UNCHANGED <<ctrlFrame, closedEvt, closeCalled>>

\* close(): self._window_closed_event.set()
CloseEvent(c) ==
    /\ cpc[c] = "close_evt"
    /\ cpc' = [cpc EXCEPT ![c] = "close_win"]
    /\ closedEvt' = TRUE
    /\ UNCHANGED <<ctrlFrame, running, closeCalled>>

\* a close() that also releases the frame source of the running loop
CloseWindows_release(c) ==
    /\ cpc[c] = "close_win"
    /\ cpc' = [cpc EXCEPT ![c] = "idle"]
    /\ closeCalled' = TRUE
    /\ capOpen' = FALSE
    /\ rel' = (IF capOpen THEN rel + 1 ELSE rel)
    /\ UNCHANGED <<constVars, last_result, srcDead, workerVars, acq, cbCount,
                   ogCount, cbView, lastFrame, flagVars>>

\* a close() that lets the error of destroyWindow escape
CloseWindows_mut(c) ==
    /\ cpc[c] = "close_win"
    /\ \E raised \in BOOLEAN :
        cpc' = [cpc EXCEPT ![c] = IF raised THEN "raised" ELSE "idle"]
    /\ closeCalled' = TRUE
    /\ UNCHANGED <<ctrlFrame, flagVars>>

\* close(): try: cv2.destroyWindow(name) except Exception: pass
\*          try: cv2.destroyAllWindows() except Exception: pass; return
\* (either call may raise, e.g. when no window exists; it is swallowed)
CloseWindows(c) ==
    /\ cpc[c] = "close_win"
    /\ \E raised \in BOOLEAN :
        cpc' = [cpc EXCEPT ![c] = "idle"]
    /\ closeCalled' = TRUE
    /\ UNCHANGED <<ctrlFrame, flagVars>>

(* ---------------------------- environment ------------------------------ *)
\* the camera fails for good: every later cap.read() returns ret = False
SourceFail ==
    /\ ~srcDead
    /\ srcDead' = TRUE
    /\ UNCHANGED <<constVars, flagVars, last_result, capOpen, workerVars, cpc,
                   histVars>>

(* --------------------------- specifications ---------------------------- *)
\* the steps of a recognize() call in progress
WorkerRun ==
    \/ ClearEvent \/ OpenCap
    \/ WhileRunning \/ WhileEvent \/ Read
    \/ Process \/ Callback \/ OnGesture \/ Show
    \/ FinRelease \/ FinRunning \/ FinEvent

CtrlStep(c) ==
    \/ StopRunning(c) \/ StopEvent(c)
    \/ CloseRunning(c) \/ CloseEvent(c) \/ CloseWindows(c)

Next ==
    \/ \E a \in ArgSets : Start(a)
    \/ WorkerRun
    \/ \E c \in Ctrl : CtrlStep(c)
    \/ SourceFail

Spec == Init /\ [][Next]_vars

\* every frame read and every callback returns, and the worker thread is
\* scheduled: a recognize() call in progress keeps taking steps
FairSpec == Init /\ [][Next]_vars /\ WF_vars(WorkerRun)

\* the same threads, with the returns of stop() and of recognize() recorded
RaceSpec == InitRace /\ [][Next]_vars /\ WF_vars(WorkerRun)

(* ---------------------- the arbiter on its own ------------------------- *)
\* per-gesture model outputs fed to the arbiter
ProbLevels == {0, 10, 30, 50, 60, 65, 79, 80, 85, 90, 95}

\* per-gesture model outputs fed to the meta classifier
MetaInputLevels == {10, 90}

\* entries of the softmax output of the meta classifier
MetaLevels == {10, 20, 30, 40, 50, 70}

RECURSIVE SumSeq(_)
SumSeq(v) == IF v = <<>> THEN 0 ELSE Head(v) + SumSeq(Tail(v))

\* softmax outputs over n classes: they sum to 1
MetaDists(n) == {d \in Vectors(n, MetaLevels) : SumSeq(d) = 100}

\* gesture lists of 0..ArbMaxGestures gestures
ArbGestureLists == {SubSeq(RequiredGestures, 1, n) : n \in 0..ArbMaxGestures}

\* the state at line 149: gesture_probs computed, the arbiter about to run
ArbInputs ==
    UNION { UNION {
        IF m
        THEN { [pc |-> "in", gs |-> gs, has_meta |-> TRUE, gp |-> gp, mo |-> mo,
                label |-> None, meta_probs |-> <<>>] :
               gp \in Vectors(Len(gs), MetaInputLevels), mo \in MetaDists(Len(gs) + 1) }
        ELSE { [pc |-> "in", gs |-> gs, has_meta |-> FALSE, gp |-> gp, mo |-> <<>>,
                label |-> None, meta_probs |-> <<>>] :
               gp \in Vectors(Len(gs), ProbLevels) }
        : m \in BOOLEAN } : gs \in ArbGestureLists }

InitArb ==
    /\ gestures = <<>>
    /\ meta_classifier = FALSE
    /\ InitEngine
    /\ stopReturned = "off"
    /\ arb \in ArbInputs
    /\ UnitsOff

\* lines 149-169 applied to one input
ArbDecide ==
    /\ arb.pc = "in"
    /\ arb' = IF DecideRaises(arb.gs, arb.has_meta)
              THEN [arb EXCEPT !.pc = "raised"]
              ELSE [arb EXCEPT
                      !.pc = "out",
                      !.label = DecideLabel(arb.gs, arb.has_meta, arb.gp, arb.mo),
                      !.meta_probs = DecideMetaProbs(arb.has_meta, arb.gp, arb.mo)]
    /\ UNCHANGED <<gestures, meta_classifier, flagVars, last_result, capOpen,
                   srcDead, workerVars, cpc, histVars, unitVars, stopReturned>>

NextArb == ArbDecide

SpecArb == InitArb /\ [][NextArb]_vars

(* --------------------- the constructor on its own ---------------------- *)
\* entries a dataset root may hold: gesture directories, the meta
\* classifier's directory and a plain file
RootEntries ==
    { [name |-> "fire", isdir |-> TRUE], [name |-> "ice", isdir |-> TRUE],
      [name |-> Reserved, isdir |-> TRUE], [name |-> "notes.txt", isdir |-> FALSE] }

\* os.listdir results: up to CtorMaxEntries distinct entries in any order
Listings ==
    UNION { { l \in Vectors(n, RootEntries) :
                \A i, j \in 1..n : i # j => l[i] # l[j] } : n \in 0..CtorMaxEntries }

CtorRoots ==
    { [listing |-> l, model_files |-> f, meta_ok |-> m] :
        l \in Listings, f \in SUBSET {"fire", "ice"}, m \in BOOLEAN }

\* the engine and the arbiter at rest
BaseOff ==
    /\ gestures = <<>>
    /\ meta_classifier = FALSE
    /\ InitEngine
    /\ stopReturned = "off"
    /\ arb = ArbIdle

\* everything but the variable of one of the first four units, at rest
EngineOff ==
    /\ BaseOff
    /\ MoreOff

moreVars == <<train, game, spell, bridge>>
engineFrame == <<gestures, meta_classifier, flagVars, last_result, capOpen,
                 srcDead, workerVars, cpc, histVars, arb, stopReturned, moreVars>>

InitCtor ==
    /\ EngineOff
    /\ ctor \in { [pc |-> "in", root |-> r, engine |-> Off] : r \in CtorRoots }
    /\ audit = Off /\ prep = Off /\ build = Off

\* GestureRecognizer(dataset_dir, models_dir)
CtorRun ==
    /\ ctor.pc = "in"
    /\ LET e == Construct(ctor.root)
       IN  ctor' = [ctor EXCEPT !.pc = IF e.raised THEN "raised" ELSE "built",
                                !.engine = e]
    /\ UNCHANGED <<engineFrame, audit, prep, build>>

NextCtor == CtorRun

SpecCtor == InitCtor /\ [][NextCtor]_vars

(* --------------------------- preprocessing ----------------------------- *)
\* An array is [ndim, width, data]: data holds the numbers in row-major
\* order; a 2-D array has rows of the given width, a flat array has width 0.
\* Coordinates are integers.  The output vector is kept exact as num and
\* den2: its i-th entry is num[i] / sqrt(den2).
Rows(arr, w) == Len(arr.data) \div w
At(arr, w, j, c) == arr.data[w * (j - 1) + c]

\* a reshape that takes any flat length
Reshape_mut(arr) ==
    IF arr.ndim = 1
    THEN IF Len(arr.data) >= 3
         THEN [raised |-> FALSE, ndim |-> 2, width |-> 3, data |-> arr.data]
         ELSE [raised |-> TRUE, ndim |-> 1, width |-> 0, data |-> <<>>]
    ELSE [raised |-> FALSE, ndim |-> 2, width |-> arr.width, data |-> arr.data]

\* lines 14-20: a flat array of 126 or 63 numbers becomes rows of 3; any
\* other flat length raises ValueError
Reshape(arr) ==
    IF arr.ndim = 1
    THEN IF Len(arr.data) = 126 \/ Len(arr.data) = 63
         THEN [raised |-> FALSE, ndim |-> 2, width |-> 3, data |-> arr.data]
         ELSE [raised |-> TRUE, ndim |-> 1, width |-> 0, data |-> <<>>]
    ELSE [raised |-> FALSE, ndim |-> 2, width |-> arr.width, data |-> arr.data]

\* lines 21-22: the points as <<x, y>>; arr[:, :2] when rows are wider
XY(arr) ==
    [j \in 1..Rows(arr, arr.width) |-> <<At(arr, arr.width, j, 1),
                                         At(arr, arr.width, j, 2)>>]

\* points taken as they are, not relative to the first one
Relative_mut(pts) == pts

\* lines 23-24: rel = arr - base
Relative(pts) ==
    [j \in DOMAIN pts |-> <<pts[j][1] - pts[1][1], pts[j][2] - pts[1][2]>>]

\* line 25-26, squared: max over the points of x^2 + y^2
RECURSIVE MaxDist2From(_, _)
MaxDist2From(relp, j) ==
    IF j > Len(relp) THEN 0
    ELSE LET d2 == relp[j][1] * relp[j][1] + relp[j][2] * relp[j][2]
             m == MaxDist2From(relp, j + 1)
         IN  IF d2 > m THEN d2 ELSE m

MaxDist2(relp) == MaxDist2From(relp, 1)

Flatten(relp) == [i \in 1..(2 * Len(relp)) |-> relp[(i + 1) \div 2][2 - (i % 2)]]

\* a division that is not guarded: 0 / 0 is NaN
Scale_mut(relp, m2) ==
    [raised |-> FALSE, nan |-> (m2 = 0), num |-> Flatten(relp), den2 |-> m2]

\* lines 27-31: zeros when max_dist == 0, else rel / max_dist; flattened
Scale(relp, m2) ==
    IF m2 = 0
    THEN [raised |-> FALSE, nan |-> FALSE,
          num |-> [i \in 1..(2 * Len(relp)) |-> 0], den2 |-> 1]
    ELSE [raised |-> FALSE, nan |-> FALSE, num |-> Flatten(relp), den2 |-> m2]

preprocess_gesture(points) ==
    LET arr == Reshape(points)
    IN  IF arr.raised
        THEN [raised |-> TRUE, nan |-> FALSE, num |-> <<>>, den2 |-> 1]
        ELSE LET relp == Relative(XY(arr))
             IN  Scale(relp, MaxDist2(relp))

(* ------------------------ the integrity checks ------------------------ *)
\* a stored two-hand sample (126 numbers) whose first k landmarks are
\* present: odd ones through z alone, even ones through x and y
HandArray(k) ==
    [i \in 1..126 |->
        LET j == (i - 1) \div 3 + 1
            c == (i - 1) % 3
        IN  IF j > k THEN 0
            ELSE IF j % 2 = 1 THEN (IF c = 2 THEN 3 ELSE 0)
            ELSE (IF c = 2 THEN 0 ELSE c + 1)]

Loaded(arr) == [raised |-> FALSE, data |-> arr]

\* what np.load gives for each kind of file: an array, or an exception
Content(kind) ==
    CASE kind = "zero"   -> Loaded(HandArray(0))
      [] kind = "h4"     -> Loaded(HandArray(4))
      [] kind = "h6"     -> Loaded(HandArray(6))
      [] kind = "h18"    -> Loaded(HandArray(18))
      [] kind = "h42"    -> Loaded(HandArray(42))
      [] kind = "hand21" -> Loaded(SubSeq(HandArray(21), 1, 63))
      [] kind = "ragged" -> Loaded(<<1, 2, 3, 4>>)
      [] kind = "void"   -> Loaded(<<>>)
      [] OTHER           -> [raised |-> TRUE, data |-> <<>>]

\* fname.endswith('.npy')
IsNpy(kind) == kind # "notes"

\* count_nonzero_landmarks on np.load's result: 0 when the load raised, the
\* array is empty or reshape(-1, 3) raised; else the rows with a nonzero entry
count_nonzero_landmarks(f) ==
    IF f.raised THEN 0
    ELSE IF Len(f.data) = 0 THEN 0
    ELSE IF Len(f.data) % 3 # 0 THEN 0
    ELSE Cardinality({ j \in 1..(Len(f.data) \div 3) :
                         \E c \in 1..3 : f.data[3 * (j - 1) + c] # 0 })

\* the .npy files of a directory; files is the sequence of kinds ever stored,
\* present the indices that still exist
NpyFiles(files, present) == { i \in present : IsNpy(files[i]) }

RECURSIVE SumOver(_, _, _)
SumOver(S, files, pow) ==
    IF S = {} THEN 0
    ELSE LET i == CHOOSE x \in S : TRUE
             n == count_nonzero_landmarks(Content(files[i]))
         IN  (IF pow = 2 THEN n * n ELSE n) + SumOver(S \ {i}, files, pow)

\* evaluate_landmark_integrity: the landmark counts of the .npy files as
\* their number n, sum and sum of squares (mean = sum / n, std^2 =
\* sumsq / n - mean^2) and the number of zero counts; all 0 without files
evaluate_landmark_integrity(files, present) ==
    LET S == NpyFiles(files, present)
    IN  [n |-> Cardinality(S),
         sum |-> SumOver(S, files, 1),
         sumsq |-> SumOver(S, files, 2),
         count_zero |-> Cardinality({ i \in S :
                            count_nonzero_landmarks(Content(files[i])) = 0 })]

\* a health check whose zero ratio test is not strict
health_check_mut(files, present) ==
    LET e == evaluate_landmark_integrity(files, present)
        total_files == Cardinality(NpyFiles(files, present))
    IN  IF total_files = 0 THEN <<FALSE, "empty">>
        ELSE IF 100 * e.count_zero >= ZERO_LANDMARKS_THRESHOLD * total_files
             THEN <<FALSE, "zeros">>
        ELSE IF e.sum < MEAN_LANDMARKS_THRESHOLD * e.n THEN <<FALSE, "landmarks">>
        ELSE IF e.n * e.sumsq - e.sum * e.sum
                  > STD_LANDMARKS_THRESHOLD * STD_LANDMARKS_THRESHOLD * e.n * e.n
             THEN <<FALSE, "inconsistent">>
        ELSE <<TRUE, "healthy">>

\* health_check: zero_ratio > threshold, mean < threshold, std > threshold,
\* each compared exactly after clearing denominators
health_check(files, present) ==
    LET e == evaluate_landmark_integrity(files, present)
        total_files == Cardinality(NpyFiles(files, present))
    IN  IF total_files = 0 THEN <<FALSE, "empty">>
        ELSE IF 100 * e.count_zero > ZERO_LANDMARKS_THRESHOLD * total_files
             THEN <<FALSE, "zeros">>
        ELSE IF e.sum < MEAN_LANDMARKS_THRESHOLD * e.n THEN <<FALSE, "landmarks">>
        ELSE IF e.n * e.sumsq - e.sum * e.sum
                  > STD_LANDMARKS_THRESHOLD * STD_LANDMARKS_THRESHOLD * e.n * e.n
             THEN <<FALSE, "inconsistent">>
        ELSE <<TRUE, "healthy">>

\* files_with_few_landmarks: the .npy files with count <= min_landmarks
files_with_few_landmarks(files, present, min_landmarks) ==
    { i \in NpyFiles(files, present) :
        count_nonzero_landmarks(Content(files[i])) <= min_landmarks }

\* n files of one kind
Copies(kind, n) == [i \in 1..n |-> kind]

CountedKinds == <<"zero", "h4", "h6", "h18">>
RareOrder == <<"unreadable", "ragged", "void", "h42", "notes">>
RareKinds == Range(RareOrder)

KindsToSeq(S) == SelectSeq(RareOrder, LAMBDA k : k \in S)

\* directories of up to c files of each counted kind and up to two files of
\* the rare kinds
SmallDirs(c) ==
    { Copies(CountedKinds[1], m[1]) \o Copies(CountedKinds[2], m[2])
        \o Copies(CountedKinds[3], m[3]) \o Copies(CountedKinds[4], m[4])
        \o KindsToSeq(R) :
        m \in [1..4 -> 0..c],
        R \in { X \in SUBSET RareKinds : Cardinality(X) <= 2 } }

\* the directories health_check is run on: small ones and three large ones
AuditDirs ==
    SmallDirs(AuditMaxCopies)
    \cup { Copies("zero", z) \o Copies("h18", AuditBigDir - z) : z \in 0..2 }

\* the directories that are pruned
PruneDirs == SmallDirs(PruneMaxCopies)

\* values of max_landmarks
PruneLimits == {0, 4}

AuditInput(d) ==
    [pc |-> "in", files |-> d, present |-> DOMAIN d,
     verdict |-> <<FALSE, "none">>, max |-> 0, to_delete |-> {},
     deleted_count |-> 0, round |-> 0, start |-> {},
     tried |-> {}, failed |-> FALSE, failed1 |-> FALSE]

InitAudit ==
    /\ EngineOff
    /\ ctor = Off /\ prep = Off /\ build = Off
    /\ audit \in { AuditInput(d) : d \in AuditDirs }

InitPrune ==
    /\ EngineOff
    /\ ctor = Off /\ prep = Off /\ build = Off
    /\ audit \in { AuditInput(d) : d \in PruneDirs }

auditFrame == <<engineFrame, ctor, prep, build>>

\* health_check(directory)
HealthCheck ==
    /\ audit.pc = "in"
    /\ audit' = [audit EXCEPT !.pc = "checked",
                              !.verdict = health_check(audit.files, audit.present)]
    /\ UNCHANGED auditFrame

\* delete_files_with_few_landmarks(directory, max_landmarks): line 103-104;
\* a second call follows the first with the same argument
PruneStart(m) ==
    /\ \/ audit.pc = "in"
       \/ audit.pc = "pruned" /\ audit.round = 1 /\ m = audit.max
    /\ audit' = [audit EXCEPT
            !.pc = "pruning",
            !.max = m,
            !.to_delete = files_with_few_landmarks(audit.files, audit.present, m),
            !.deleted_count = 0,
            !.round = audit.round + 1,
            !.start = audit.present,
            !.tried = {},
            !.failed = FALSE,
            !.failed1 = audit.failed]
    /\ UNCHANGED auditFrame

\* a removal whose failure ends the whole prune
PruneRemove_mut ==
    /\ audit.pc = "pruning"
    /\ audit.to_delete # {}
    /\ LET i == CHOOSE x \in audit.to_delete : \A y \in audit.to_delete : x <= y
       IN  \E ok \in BOOLEAN :
             audit' = IF ok
                      THEN [audit EXCEPT !.to_delete = @ \ {i},
                                         !.tried = @ \cup {i},
                                         !.present = @ \ {i},
                                         !.deleted_count = @ + 1]
                      ELSE [audit EXCEPT !.to_delete = {},
                                         !.tried = @ \cup {i},
                                         !.failed = TRUE]
    /\ UNCHANGED auditFrame

\* one turn of the loop at lines 105-111: os.remove succeeds, or raises and
\* the file is passed over
PruneRemove ==
    /\ audit.pc = "pruning"
    /\ audit.to_delete # {}
    /\ LET i == CHOOSE x \in audit.to_delete : \A y \in audit.to_delete : x <= y
       IN  \E ok \in BOOLEAN :
             audit' = IF ok
                      THEN [audit EXCEPT !.to_delete = @ \ {i},
                                         !.tried = @ \cup {i},
                                         !.present = @ \ {i},
                                         !.deleted_count = @ + 1]
                      ELSE [audit EXCEPT !.to_delete = @ \ {i},
                                         !.tried = @ \cup {i},
                                         !.failed = TRUE]
    /\ UNCHANGED auditFrame

\* return deleted_count
PruneReturn ==
    /\ audit.pc = "pruning"
    /\ audit.to_delete = {}
    /\ audit' = [audit EXCEPT !.pc = "pruned"]
    /\ UNCHANGED auditFrame

NextAudit == HealthCheck

SpecAudit == InitAudit /\ [][NextAudit]_vars

NextPrune ==
    \/ \E m \in PruneLimits : PruneStart(m)
    \/ PruneRemove
    \/ PruneReturn

SpecPrune == InitPrune /\ [][NextPrune]_vars

(* ---------------------- preprocessing on its own ---------------------- *)
\* the j-th landmark <<x, y, z>> of each kind of sample: no hand, all points
\* over one another, and two hands in different poses
PatternPoint(pat, j) ==
    CASE pat = "zero"   -> <<0, 0, 0>>
      [] pat = "same"   -> <<2, 5, j % 3>>
      [] pat = "line"   -> <<j % 4, (2 * j) % 5, 1>>
      [] OTHER          -> <<(7 * j) % 5, (3 * j) % 4, j % 2>>

Patterns == {"zero", "same", "line", "spread"}

\* width of a point in the data of an array
PointWidth(arr) == IF arr.ndim = 1 THEN 3 ELSE arr.width

\* an array of n numbers in all, laid out as points of the pattern
ArrayOf(ndim, w, n, pat) ==
    LET pw == IF ndim = 1 THEN 3 ELSE w
    IN  [ndim |-> ndim, width |-> w,
         data |-> [i \in 1..n |-> PatternPoint(pat, (i - 1) \div pw + 1)[((i - 1) % pw) + 1]]]

PrepFlatLengths == {0, 1, 62, 63, 64, 84, 125, 126, 127}
\* <<rows, width>> of the 2-D inputs
PrepShapes == {<<1, 3>>, <<21, 3>>, <<42, 3>>, <<21, 2>>, <<42, 2>>}

PrepArrays ==
    { ArrayOf(1, 0, n, pat) : n \in PrepFlatLengths, pat \in Patterns }
    \cup { ArrayOf(2, sh[2], sh[1] * sh[2], pat) : sh \in PrepShapes, pat \in Patterns }

\* the array with every point p replaced by base + k * (p - base) + t, where
\* base is the first point and t shifts x and y
Transform(arr, t, k) ==
    LET pw == PointWidth(arr)
    IN  [arr EXCEPT !.data =
            [i \in DOMAIN arr.data |->
                LET c == ((i - 1) % pw) + 1
                    b == arr.data[c]
                IN  b + k * (arr.data[i] - b) + (IF c <= 2 THEN t[c] ELSE 0)]]

Shifts == (-PrepMaxShift..PrepMaxShift) \X (-PrepMaxShift..PrepMaxShift)
Scales == 1..PrepMaxScale

NoOutput == [raised |-> FALSE, nan |-> FALSE, num |-> <<>>, den2 |-> 1]

InitPrep ==
    /\ EngineOff
    /\ ctor = Off /\ audit = Off /\ build = Off
    /\ prep \in { [pc |-> "in", points |-> a, t |-> t, k |-> k,
                    out |-> NoOutput, out_t |-> NoOutput, out_k |-> NoOutput] :
                   a \in PrepArrays, t \in Shifts, k \in Scales }

\* preprocess_gesture on a sample, on the sample translated by t and on the
\* sample rescaled by k about its first point
PrepRun ==
    /\ prep.pc = "in"
    /\ prep' = [prep EXCEPT
            !.pc = "out",
            !.out = preprocess_gesture(prep.points),
            !.out_t = preprocess_gesture(Transform(prep.points, prep.t, 1)),
            !.out_k = preprocess_gesture(Transform(prep.points, <<0, 0>>, prep.k))]
    /\ UNCHANGED <<engineFrame, ctor, audit, build>>

NextPrep == PrepRun

SpecPrep == InitPrep /\ [][NextPrep]_vars

(* --------------------------- training sets ----------------------------- *)
RECURSIVE SumOverSet(_, _)
SumOverSet(S, c) ==
    IF S = {} THEN 0
    ELSE LET g == CHOOSE x \in S : TRUE IN c[g] + SumOverSet(S \ {g}, c)

\* the body of the loops at mlp.py 19-26 and 32-38 and meta.py 43-52 for one
\* file: np.load and preprocess_gesture outside any try, then the size test
SampleFate(kind, feature_dim) ==
    LET f == Content(kind)
    IN  IF f.raised THEN "raise"
        ELSE LET pre == preprocess_gesture([ndim |-> 1, width |-> 0, data |-> f.data])
             IN  IF pre.raised THEN "raise"
                 ELSE IF Len(pre.num) # feature_dim THEN "skip"
                 ELSE "keep"

\* one directory loop: the kept samples in listing order, or raised
RECURSIVE LoadDir(_, _)
LoadDir(files, feature_dim) ==
    IF files = <<>> THEN [raised |-> FALSE, kept |-> 0]
    ELSE IF ~IsNpy(Head(files)) THEN LoadDir(Tail(files), feature_dim)
    ELSE LET fate == SampleFate(Head(files), feature_dim)
             rest == LoadDir(Tail(files), feature_dim)
         IN  IF fate = "raise" \/ rest.raised THEN [raised |-> TRUE, kept |-> 0]
             ELSE [raised |-> FALSE,
                   kept |-> rest.kept + (IF fate = "keep" THEN 1 ELSE 0)]

\* n samples of one origin
SamplesOf(src, from, n) == [i \in 1..n |-> [src |-> src, from |-> from]]

\* the loop at mlp.py 28-38 over all_gestures[i..]: the pooled negatives,
\* each tagged with the gesture it comes from, or raised
RECURSIVE LoadOthers(_, _, _, _, _)
LoadOthers(all_gestures, i, gesture_name, dirs, feature_dim) ==
    IF i > Len(all_gestures) THEN [raised |-> FALSE, pool |-> <<>>]
    ELSE LET other == all_gestures[i]
             rest == LoadOthers(all_gestures, i + 1, gesture_name, dirs, feature_dim)
         IN  IF other = gesture_name THEN rest
             ELSE LET d == LoadDir(dirs[other], feature_dim)
                  IN  IF d.raised \/ rest.raised
                      THEN [raised |-> TRUE, pool |-> <<>>]
                      ELSE [raised |-> FALSE,
                            pool |-> SamplesOf("neg", other, d.kept) \o rest.pool]

\* how many samples of the pool come from gesture g
FromCount(pool, g) == Cardinality({ i \in DOMAIN pool : pool[i].from = g })

\* np.random.shuffle followed by negatives[:k]: any k of the pooled
\* samples, or all of them when there are fewer; given per origin
Truncations(pool, k) ==
    LET origins == { pool[i].from : i \in DOMAIN pool }
        keep == IF k < Len(pool) THEN k ELSE Len(pool)
    IN  { c \in [origins -> 0..keep] :
            /\ \A g \in origins : c[g] <= FromCount(pool, g)
            /\ SumOverSet(origins, c) = keep }

\* sample directories of the gesture a training set is built for
TargetDirs ==
    { <<>>,
      Copies("h42", 10),
      Copies("h18", 5),
      <<"h42", "hand21", "notes", "zero">>,
      <<"hand21">>,
      <<"h42", "ragged">>,
      <<"unreadable", "h42">> }

\* sample directories of the other gestures
OtherDirs ==
    { <<>>,
      Copies("h18", 5),
      <<"h42", "hand21", "notes", "zero">>,
      <<"h6", "void">> }

\* the calls GestureDataset(gesture_name, all_gestures, negative_ratio) on a
\* dataset of 1..BuildMaxGestures gestures, for its first and for its last
\* gesture; negative_ratio is drawn where it is first read
BuildInputs ==
    UNION { UNION {
        { [pc |-> "in", gesture_name |-> gestures0[t], all_gestures |-> gestures0,
           dirs |-> [g \in Range(gestures0) |->
                       IF g = gestures0[t] THEN td ELSE od[g]],
           negative_ratio |-> 0, samples |-> <<>>, labels |-> <<>>,
           negatives |-> <<>>, meta_count |-> 0, meta_trained |-> FALSE] :
          td \in TargetDirs,
          od \in [Range(gestures0) \ {gestures0[t]} -> OtherDirs] }
        : t \in {1, Len(gestures0)} }
        : gestures0 \in { SubSeq(RequiredGestures, 1, n) : n \in 1..BuildMaxGestures } }

InitBuild ==
    /\ EngineOff
    /\ ctor = Off /\ audit = Off /\ prep = Off
    /\ build \in BuildInputs

buildFrame == <<engineFrame, ctor, audit, prep>>

\* mlp.py 14-26: the positives
BuildPositives ==
    /\ build.pc = "in"
    /\ LET d == LoadDir(build.dirs[build.gesture_name], EXPECTED_FEATURE_DIM)
       IN  build' = IF d.raised
                    THEN [build EXCEPT !.pc = "raised"]
                    ELSE [build EXCEPT
                            !.pc = "negatives",
                            !.samples = SamplesOf("pos", build.gesture_name, d.kept),
                            !.labels = [i \in 1..d.kept |-> 1]]
    /\ UNCHANGED buildFrame

\* mlp.py 27-38: the negatives pooled from the other gestures
BuildNegatives ==
    /\ build.pc = "negatives"
    /\ LET o == LoadOthers(build.all_gestures, 1, build.gesture_name, build.dirs,
                           EXPECTED_FEATURE_DIM)
       IN  build' = IF o.raised
                    THEN [build EXCEPT !.pc = "raised", !.samples = <<>>,
                                       !.labels = <<>>]
                    ELSE [build EXCEPT !.pc = "shuffle", !.negatives = o.pool]
    /\ UNCHANGED buildFrame

\* the samples of the pool kept by a truncation, in pool order of origin
RECURSIVE KeptSamples(_, _, _)
KeptSamples(all_gestures, i, c) ==
    IF i > Len(all_gestures) THEN <<>>
    ELSE (IF all_gestures[i] \in DOMAIN c
          THEN SamplesOf("neg", all_gestures[i], c[all_gestures[i]])
          ELSE <<>>) \o KeptSamples(all_gestures, i + 1, c)

\* negatives that are all kept
BuildShuffle_mut ==
    /\ build.pc = "shuffle"
    /\ \E r \in 0..BuildMaxRatio :
       build' = [build EXCEPT
            !.pc = "synthetic",
            !.negative_ratio = r,
            !.negatives = <<>>,
            !.samples = @ \o build.negatives,
            !.labels = @ \o [i \in 1..Len(build.negatives) |-> 0]]
    /\ UNCHANGED buildFrame

\* mlp.py 39-42: shuffle, truncate to len(samples) * negative_ratio, extend
BuildShuffle ==
    /\ build.pc = "shuffle"
    /\ \E r \in 0..BuildMaxRatio :
       \E c \in Truncations(build.negatives, Len(build.samples) * r) :
         LET kept == KeptSamples(build.all_gestures, 1, c)
         IN  build' = [build EXCEPT
                 !.pc = "synthetic",
                 !.negative_ratio = r,
                 !.negatives = <<>>,
                 !.samples = @ \o kept,
                 !.labels = @ \o [i \in 1..Len(kept) |-> 0]]
    /\ UNCHANGED buildFrame

\* mlp.py 43-53: noise and zero vectors, all labelled 0
BuildSynthetic ==
    /\ build.pc = "synthetic"
    /\ build' = [build EXCEPT
            !.pc = "check",
            !.samples = @ \o SamplesOf("noise", "none", NOISE_SAMPLES)
                          \o SamplesOf("zero", "none", ZERO_VECTOR_SAMPLES),
            !.labels = @ \o [i \in 1..(NOISE_SAMPLES + ZERO_VECTOR_SAMPLES) |-> 0]]
    /\ UNCHANGED buildFrame

\* mlp.py 54-57: ValueError if there is no sample at all
BuildCheck ==
    /\ build.pc = "check"
    /\ build' = IF Len(build.samples) = 0
                THEN [build EXCEPT !.pc = "empty"]
                ELSE [build EXCEPT !.pc = "done"]
    /\ UNCHANGED buildFrame

RECURSIVE MetaLoad(_, _, _)
MetaLoad(gs, i, dirs) ==
    IF i > Len(gs) THEN [raised |-> FALSE, kept |-> 0]
    ELSE LET d == LoadDir(dirs[gs[i]], EXPECTED_FEATURE_DIM)
             rest == MetaLoad(gs, i + 1, dirs)
         IN  IF d.raised \/ rest.raised THEN [raised |-> TRUE, kept |-> 0]
             ELSE [raised |-> FALSE, kept |-> d.kept + rest.kept]

\* meta.py 39-69: the training set of the meta classifier from the same
\* dataset, and whether it has the two classes training needs
BuildMetaSet ==
    /\ build.pc = "in"
    /\ LET m == MetaLoad(build.all_gestures, 1, build.dirs)
       IN  build' = IF m.raised
                    THEN [build EXCEPT !.pc = "meta_raised"]
                    ELSE [build EXCEPT
                            !.pc = "meta_done",
                            !.meta_count = m.kept + META_NOISE_SAMPLES
                                           + META_ZERO_SAMPLES,
                            !.meta_trained = (m.kept > 0)]
    /\ UNCHANGED buildFrame

NextBuild ==
    \/ BuildPositives
    \/ BuildNegatives
    \/ BuildShuffle
    \/ BuildSynthetic
    \/ BuildCheck
    \/ BuildMetaSet

SpecBuild == InitBuild /\ [][NextBuild]_vars

(* ------------------ training the meta classifier ---------------------- *)
\* the class indices of the gestures whose directory yields a kept sample
\* (meta.py 41-52: y_meta.append(idx)), or raised
RECURSIVE MetaLabels(_, _, _)
MetaLabels(gs, i, dirs) ==
    IF i > Len(gs) THEN [raised |-> FALSE, labels |-> {}, kept |-> 0]
    ELSE LET d == LoadDir(dirs[gs[i]], EXPECTED_FEATURE_DIM)
             rest == MetaLabels(gs, i + 1, dirs)
         IN  IF d.raised \/ rest.raised
             THEN [raised |-> TRUE, labels |-> {}, kept |-> 0]
             ELSE [raised |-> FALSE,
                   labels |-> (IF d.kept > 0 THEN {i - 1} ELSE {}) \cup rest.labels,
                   kept |-> d.kept + rest.kept]

\* sample directories of the gestures the meta classifier is trained on
MetaDirs ==
    { <<>>,
      <<"h42", "hand21">>,
      <<"h18", "notes">>,
      <<"unreadable">> }

\* the calls train_meta_classifier(gestures, 84) on up to MetaMaxGestures
\* gestures, with any of the per-gesture model files present, and with or
\* without a meta_classifier.pth of an earlier run
TrainInputs ==
    UNION { { [pc |-> "in", gestures |-> SubSeq(RequiredGestures, 1, n),
               dirs |-> d, model_files |-> f, before |-> a, artifact |-> a,
               y_meta |-> {}, n_meta |-> 0] :
                d \in [Range(SubSeq(RequiredGestures, 1, n)) -> MetaDirs],
                f \in SUBSET Range(SubSeq(RequiredGestures, 1, n)),
                a \in {"absent", "stale"} } : n \in 0..MetaMaxGestures }

InitTrain ==
    /\ BaseOff
    /\ ctor = Off /\ audit = Off /\ prep = Off /\ build = Off
    /\ game = Off /\ spell = Off /\ bridge = Off
    /\ train \in TrainInputs

baseFrame == <<gestures, meta_classifier, flagVars, last_result, capOpen,
               srcDead, workerVars, cpc, histVars, arb, stopReturned,
               ctor, audit, prep, build>>
trainFrame == <<baseFrame, game, spell, bridge>>

\* line 38: models = {g: load_model(...) for g in gestures}
TrainLoadModels ==
    /\ train.pc = "in"
    /\ train' = [train EXCEPT !.pc =
                    IF Range(train.gestures) \subseteq train.model_files
                    THEN "collect" ELSE "raised"]
    /\ UNCHANGED trainFrame

\* lines 41-52: the real samples, labelled with their gesture's index
TrainCollect ==
    /\ train.pc = "collect"
    /\ LET m == MetaLabels(train.gestures, 1, train.dirs)
       IN  train' = IF m.raised
                    THEN [train EXCEPT !.pc = "raised"]
                    ELSE [train EXCEPT !.pc = "unknown",
                                       !.y_meta = m.labels,
                                       !.n_meta = m.kept]
    /\ UNCHANGED trainFrame

\* lines 54-66: unknown_idx = len(gestures); 50 noise and 20 zero samples
TrainUnknown ==
    /\ train.pc = "unknown"
    /\ train' = [train EXCEPT
                   !.pc = "check",
                   !.y_meta = @ \cup {Len(train.gestures)},
                   !.n_meta = @ + META_NOISE_SAMPLES + META_ZERO_SAMPLES]
    /\ UNCHANGED trainFrame

\* a class test that lets a one-class set through
TrainCheck_mut ==
    /\ train.pc = "check"
    /\ train' = [train EXCEPT !.pc =
                    IF Cardinality(train.y_meta) < 1 THEN "aborted" ELSE "fit"]
    /\ UNCHANGED trainFrame

\* lines 67-69: if len(set(y_meta)) < 2: print(...); return
TrainCheck ==
    /\ train.pc = "check"
    /\ train' = [train EXCEPT !.pc =
                    IF Cardinality(train.y_meta) < 2 THEN "aborted" ELSE "fit"]
    /\ UNCHANGED trainFrame

\* lines 70-88: the training loop and torch.save(..., meta_model_path)
TrainFit ==
    /\ train.pc = "fit"
    /\ train' = [train EXCEPT !.pc = "saved", !.artifact = "fresh"]
    /\ UNCHANGED trainFrame

NextTrain ==
    \/ TrainLoadModels
    \/ TrainCollect
    \/ TrainUnknown
    \/ TrainCheck
    \/ TrainFit

SpecTrain == InitTrain /\ [][NextTrain]_vars

(* ---------------- the game's gesture thread (main.py) ------------------ *)
\* time in tenths of a second; time.time() is far from 0 when the game
\* starts, so the clock starts a full debounce interval after 0
ClockStart == GESTURE_DEBOUNCE_TIME

\* amounts by which the clock is seen to advance between two steps
TickSteps == {3, GESTURE_DEBOUNCE_TIME}

\* join(timeout=1) of a thread that stays alive takes one second
JoinTimeout == 10

\* the labels an engine passes to on_gesture
GameLabels == {"fire", "ice", "No gesture"}

Workers == 1..GameMaxWorkers

\* thread.is_alive() of the w-th worker thread
IsAlive(w) == game.wk[w] \notin {"new", "done"}

\* self.gesture_thread and self.gesture_thread.is_alive()
ThreadAlive ==
    IF game.gesture_thread = 0 THEN FALSE ELSE IsAlive(game.gesture_thread)

\* Game.__init__ (lines 647-658): no thread, no recognizer, an empty queue
InitGame ==
    /\ BaseOff
    /\ ctor = Off /\ audit = Off /\ prep = Off /\ build = Off
    /\ train = Off /\ spell = Off /\ bridge = Off
    /\ game = [pc |-> "on",
               input_method |-> "Keyboard",
               gesture_thread |-> 0,
               gesture_recognizer |-> 0,
               wk |-> [w \in Workers |-> "new"],
               rec_running |-> [w \in Workers |-> FALSE],
               last_gesture_time |-> 0,
               gesture_queue |-> <<>>,
               now |-> ClockStart,
               mpc |-> "idle",
               lastOp |-> "none"]

gameFrame == <<baseFrame, train, spell, bridge>>

\* set_input_method('Gesture') -> start_gesture_thread(): return if the
\* thread is alive; else last_gesture_time = 0 and a new worker thread starts
StartGestureThread ==
    /\ game.pc = "on" /\ game.mpc = "idle"
    /\ IF ThreadAlive
       THEN game' = [game EXCEPT !.input_method = "Gesture", !.lastOp = "start"]
       ELSE \E w \in Workers :
              /\ game.wk[w] = "new"
              /\ \A v \in Workers : v < w => game.wk[v] # "new"
              /\ game' = [game EXCEPT !.input_method = "Gesture",
                                      !.lastOp = "start",
                                      !.last_gesture_time = 0,
                                      !.wk[w] = "create",
                                      !.gesture_thread = w]
    /\ UNCHANGED gameFrame

\* set_input_method(other) -> stop_gesture_thread(), lines 902-905:
\* join(timeout=1) returns when the thread has ended or after a second;
\* then self.gesture_thread = None
StopJoin ==
    /\ game.pc = "on" /\ game.mpc = "idle"
    /\ \/ /\ ~ThreadAlive
          /\ game' = [game EXCEPT !.input_method = "Keyboard",
                                  !.mpc = "stop_clear",
                                  !.gesture_thread = 0]
       \/ /\ ThreadAlive
          /\ game.now + JoinTimeout <= GameMaxTime
          /\ game' = [game EXCEPT !.input_method = "Keyboard",
                                  !.mpc = "stop_clear",
                                  !.gesture_thread = 0,
                                  !.now = @ + JoinTimeout]
    /\ UNCHANGED gameFrame

\* lines 906-907: with self.gesture_queue.mutex: self.gesture_queue.queue.clear()
StopClear ==
    /\ game.pc = "on" /\ game.mpc = "stop_clear"
    /\ game' = [game EXCEPT !.mpc = "stop_rec", !.gesture_queue = <<>>]
    /\ UNCHANGED gameFrame

\* lines 909-922: stop() of the recognizer the game holds, if it holds one;
\* self.gesture_recognizer = None; close_studio(); return
StopRecognizer ==
    /\ game.pc = "on" /\ game.mpc = "stop_rec"
    /\ game' = [game EXCEPT
                  !.mpc = "idle",
                  !.lastOp = "stop",
                  !.rec_running = IF game.gesture_recognizer = 0 THEN @
                                  ELSE [@ EXCEPT ![game.gesture_recognizer] = FALSE],
                  !.gesture_recognizer = 0]
    /\ UNCHANGED gameFrame

\* gesture_worker, line 888: self.gesture_recognizer = gc.GestureRecognizer(...)
WorkerCreate(w) ==
    /\ game.pc = "on" /\ game.wk[w] = "create"
    /\ game' = [game EXCEPT !.wk[w] = "call", !.gesture_recognizer = w]
    /\ UNCHANGED gameFrame

\* recognize() begins: self._running = True
\* (recognizer.py line 81, __init__.py line 48)
WorkerEnter(w) ==
    /\ game.pc = "on" /\ game.wk[w] = "call"
    /\ game' = [game EXCEPT !.wk[w] = "loop", !.rec_running[w] = TRUE]
    /\ UNCHANGED gameFrame

\* on_gesture (lines 880-886) called by the loop of worker w with a label
OnGestureHandler(w, lab) ==
    IF lab # "No gesture"
       /\ game.now - game.last_gesture_time >= GESTURE_DEBOUNCE_TIME
    THEN [game EXCEPT
            !.gesture_queue = Append(@, [label |-> lab, at |-> game.now,
                                         by |-> w]),
            !.last_gesture_time = game.now]
    ELSE game

\* one iteration of the recognition loop while the running flag is set; the
\* engine may call on_gesture with the label of the frame (the stub of
\* gesture_control/__init__.py never does: "if on_gesture and False")
WorkerIterate(w) ==
    /\ game.pc = "on" /\ game.wk[w] = "loop" /\ game.rec_running[w]
    /\ Len(game.gesture_queue) < GameMaxQueue
    /\ \E lab \in GameLabels : game' = OnGestureHandler(w, lab)
    /\ game' # game
    /\ UNCHANGED gameFrame

\* the loop test finds the flag cleared: finally, recognize() returns and
\* the thread ends
WorkerExit(w) ==
    /\ game.pc = "on" /\ game.wk[w] = "loop" /\ ~game.rec_running[w]
    /\ game' = [game EXCEPT !.wk[w] = "done"]
    /\ UNCHANGED gameFrame

\* poll_gesture (lines 936-946) while playing: the queue is drained
PollGesture ==
    /\ game.pc = "on" /\ game.mpc = "idle"
    /\ game.input_method = "Gesture"
    /\ game.gesture_queue # <<>>
    /\ game' = [game EXCEPT !.gesture_queue = <<>>]
    /\ UNCHANGED gameFrame

\* time passes
GameTick ==
    /\ game.pc = "on"
    /\ \E d \in TickSteps :
         /\ game.now + d <= GameMaxTime
         /\ game' = [game EXCEPT !.now = @ + d]
    /\ UNCHANGED gameFrame

GameWorker(w) ==
    \/ WorkerCreate(w)
    \/ WorkerEnter(w)
    \/ WorkerIterate(w)
    \/ WorkerExit(w)

NextGame ==
    \/ StartGestureThread
    \/ StopJoin
    \/ StopClear
    \/ StopRecognizer
    \/ \E w \in Workers : GameWorker(w)
    \/ PollGesture
    \/ GameTick

SpecGame == InitGame /\ [][NextGame]_vars

(* ------------------- command sequences and spells --------------------- *)
\* commands as the keyboard and the gesture queue deliver them
Commands == {"fire", "Fire", "ice", "shield"}

\* str.lower() on the commands and recipe components in use
Lower(c) == IF c = "Fire" THEN "fire" ELSE IF c = "Ice" THEN "ice" ELSE c

LowerSeq(q) == [i \in DOMAIN q |-> Lower(q[i])]

\* spells.json: the spell lists the game may be configured with
SpellBooks ==
    { << [name |-> "Spark", recipe |-> <<"fire">>, mana_cost |-> 20],
         [name |-> "Steam", recipe |-> <<"ice", "fire">>, mana_cost |-> 30],
         [name |-> "Nova", recipe |-> <<"shield", "ice", "fire">>,
          mana_cost |-> 60] >>,
      << [name |-> "Frostfire", recipe |-> <<"Fire", "Ice">>, mana_cost |-> 15],
         [name |-> "Ward", recipe |-> <<"shield">>, mana_cost |-> 0] >> }

\* magic.py line 21: the dictionary from lower-cased recipe to spell, read
\* at key k: 0 when no spell has that recipe, else the index of the last
\* spell of the list that has it
SPELL_RECIPES(spells, k) ==
    LET hits == { i \in DOMAIN spells : LowerSeq(spells[i].recipe) = k }
    IN  IF hits = {} THEN 0
        ELSE CHOOSE i \in hits : \A j \in hits : j <= i

RECURSIVE MaxLenFrom(_, _)
MaxLenFrom(spells, i) ==
    IF i > Len(spells) THEN 0
    ELSE LET rest == MaxLenFrom(spells, i + 1)
             here == Len(spells[i].recipe)
         IN  IF here > rest THEN here ELSE rest

\* magic.py line 22
MAX_SPELL_LENGTH(spells) == MaxLenFrom(spells, 1)

\* the last n entries: lower_sequence[-n:]
LastN(q, n) == SubSeq(q, Len(q) - n + 1, Len(q))

Min(a, b) == IF a < b THEN a ELSE b

\* an append that does not look at the last entry
append_command_sequence_mut(command_sequence, cmd) ==
    Append(command_sequence, cmd)

\* magic.py 106-110
append_command_sequence(command_sequence, cmd) ==
    IF command_sequence = <<>>
       \/ command_sequence[Len(command_sequence)] # cmd
    THEN Append(command_sequence, cmd)
    ELSE command_sequence

\* a search that keeps the first match it finds
RECURSIVE BestSpell_mut(_, _, _, _)
BestSpell_mut(spells, lower_sequence, n, best) ==
    IF n > Min(Len(lower_sequence), MAX_SPELL_LENGTH(spells)) THEN best
    ELSE LET sp == SPELL_RECIPES(spells, LastN(lower_sequence, n))
         IN  IF sp # 0 /\ best.length = 0
             THEN BestSpell_mut(spells, lower_sequence, n + 1, [spell |-> sp, length |-> n])
             ELSE BestSpell_mut(spells, lower_sequence, n + 1, best)

\* magic.py 118-122: the loop over n from n on, with best_spell and
\* best_length so far
RECURSIVE BestSpell(_, _, _, _)
BestSpell(spells, lower_sequence, n, best) ==
    IF n > Min(Len(lower_sequence), MAX_SPELL_LENGTH(spells)) THEN best
    ELSE LET sp == SPELL_RECIPES(spells, LastN(lower_sequence, n))
         IN  IF sp # 0 /\ n > best.length
             THEN BestSpell(spells, lower_sequence, n + 1, [spell |-> sp, length |-> n])
             ELSE BestSpell(spells, lower_sequence, n + 1, best)

\* a cast that does not look at the player's mana
Pay_mut(mana, cost, has_callback) ==
    [mana |-> mana - cost, called |-> has_callback]

\* magic.py 125-128: the callback and the payment
Pay(mana, cost, has_callback) ==
    IF mana >= cost
    THEN [mana |-> mana - cost, called |-> has_callback]
    ELSE [mana |-> mana, called |-> FALSE]

\* magic.py 112-134
try_cast_spell_from_sequence(spells, command_sequence, mana, has_callback) ==
    LET best == BestSpell(spells, LowerSeq(command_sequence), 1,
                          [spell |-> 0, length |-> 0])
        max == MAX_SPELL_LENGTH(spells)
    IN  IF best.spell # 0
        THEN LET paid == Pay(mana, spells[best.spell].mana_cost, has_callback)
             IN  [ret |-> TRUE, command_sequence |-> <<>>, mana |-> paid.mana,
                  called |-> paid.called, best_spell |-> best.spell]
        ELSE [ret |-> FALSE,
              command_sequence |-> IF Len(command_sequence) > max
                                   THEN LastN(command_sequence, max)
                                   ELSE command_sequence,
              mana |-> mana, called |-> FALSE, best_spell |-> 0]

\* nothing to report of an operation other than a cast attempt
NoCast == [ret |-> FALSE, called |-> FALSE, best_spell |-> 0,
           has_callback |-> FALSE, sequence_before |-> <<>>, mana_before |-> 0]

\* Game.__init__ and Player.__init__: an empty sequence and full mana
InitSpell ==
    /\ BaseOff
    /\ ctor = Off /\ audit = Off /\ prep = Off /\ build = Off
    /\ train = Off /\ game = Off /\ bridge = Off
    /\ \E b \in SpellBooks :
         spell = [pc |-> "on", spells |-> b, command_sequence |-> <<>>,
                  mana |-> PLAYER_MANA, op |-> "init", last |-> NoCast]

spellFrame == <<baseFrame, train, game, bridge>>

\* a key press or a polled gesture: append_command_sequence(sequence, cmd)
AppendCommand ==
    /\ spell.pc = "on"
    /\ Len(spell.command_sequence) < SpellMaxLen
    /\ \E cmd \in Commands :
         spell' = [spell EXCEPT
                     !.command_sequence = append_command_sequence(@, cmd),
                     !.op = "append",
                     !.last = [NoCast EXCEPT
                                 !.sequence_before = spell.command_sequence]]
    /\ UNCHANGED spellFrame

\* try_cast_spell_from_sequence(sequence, player, ..., cast_spell_callback)
TryCast ==
    /\ spell.pc = "on"
    /\ \E has_callback \in BOOLEAN :
         LET r == try_cast_spell_from_sequence(spell.spells,
                     spell.command_sequence, spell.mana, has_callback)
         IN  spell' = [spell EXCEPT
                         !.command_sequence = r.command_sequence,
                         !.mana = r.mana,
                         !.op = "try",
                         !.last = [ret |-> r.ret, called |-> r.called,
                                   best_spell |-> r.best_spell,
                                   has_callback |-> has_callback,
                                   sequence_before |-> spell.command_sequence,
                                   mana_before |-> spell.mana]]
    /\ UNCHANGED spellFrame

\* Player.regen_mana(dt) over one or two seconds
RegenMana ==
    /\ spell.pc = "on"
    /\ \E dt \in {1, 2} :
         spell' = [spell EXCEPT
                     !.mana = Min(PLAYER_MANA, @ + MANA_REGEN * dt),
                     !.op = "regen", !.last = NoCast]
    /\ UNCHANGED spellFrame

\* reset_game: self.command_sequence = []
ResetSequence ==
    /\ spell.pc = "on"
    /\ spell' = [spell EXCEPT !.command_sequence = <<>>,
                              !.op = "reset", !.last = NoCast]
    /\ UNCHANGED spellFrame

NextSpell ==
    \/ AppendCommand
    \/ TryCast
    \/ RegenMana
    \/ ResetSequence

SpecSpell == InitSpell /\ [][NextSpell]_vars

(* ------------------- FRAME_QUEUE of the bridge ------------------------ *)
\* what a framepipe message may be: a JPEG that decodes to a frame, a
\* binary message that does not decode, a text message
MessageKinds == {"jpeg", "garbage", "text"}

\* a handler that lets QueueFull discard the new frame
PutFrame_mut(q, vf) ==
    IF Len(q) < FRAME_QUEUE_MAXSIZE THEN Append(q, vf) ELSE q

\* bridge.py 211-220: put_nowait; on QueueFull get_nowait, then put_nowait
\* (no await in between, so no other coroutine runs)
PutFrame(q, vf) ==
    IF Len(q) < FRAME_QUEUE_MAXSIZE THEN Append(q, vf)
    ELSE LET dropped == Tail(q)
         IN  IF Len(dropped) < FRAME_QUEUE_MAXSIZE THEN Append(dropped, vf)
             ELSE dropped

\* the module is loaded: an empty queue, nothing received or delivered
InitBridge ==
    /\ BaseOff
    /\ ctor = Off /\ audit = Off /\ prep = Off /\ build = Off
    /\ train = Off /\ game = Off /\ spell = Off
    /\ bridge = [pc |-> "on", FRAME_QUEUE |-> <<>>, received |-> 0,
                 rpc |-> "idle", delivered |-> <<>>, synthetic |-> 0,
                 op |-> "init", queue_before |-> <<>>]

bridgeFrame == <<baseFrame, train, game, spell>>

\* framepipe, lines 199-230: one message of the web socket is handled; the
\* frame of the n-th message is frame n
Framepipe ==
    /\ bridge.pc = "on"
    /\ bridge.received < BridgeMaxMessages
    /\ \E kind \in MessageKinds :
         LET n == bridge.received + 1
         IN  bridge' = [bridge EXCEPT
                          !.received = n,
                          !.op = IF kind = "jpeg" THEN "push" ELSE "skip",
                          !.queue_before = IF kind = "jpeg" THEN bridge.FRAME_QUEUE
                                           ELSE <<>>,
                          !.FRAME_QUEUE = IF kind = "jpeg" THEN PutFrame(@, n)
                                          ELSE @]
    /\ UNCHANGED bridgeFrame

\* recv, line 59: FRAME_QUEUE.get() returns the oldest frame at once, or
\* waits for one under wait_for(..., timeout=0.05)
RecvGet ==
    /\ bridge.pc = "on" /\ bridge.rpc = "idle"
    /\ bridge' = IF bridge.FRAME_QUEUE # <<>>
                 THEN [bridge EXCEPT
                         !.delivered = Append(@, Head(bridge.FRAME_QUEUE)),
                         !.FRAME_QUEUE = Tail(@),
                         !.op = "recv", !.queue_before = <<>>]
                 ELSE [bridge EXCEPT !.rpc = "waiting",
                                     !.op = "recv", !.queue_before = <<>>]
    /\ UNCHANGED bridgeFrame

\* the waiting get() is woken by a put and returns the oldest frame
RecvWake ==
    /\ bridge.pc = "on" /\ bridge.rpc = "waiting"
    /\ bridge.FRAME_QUEUE # <<>>
    /\ bridge' = [bridge EXCEPT
                    !.rpc = "idle",
                    !.delivered = Append(@, Head(bridge.FRAME_QUEUE)),
                    !.FRAME_QUEUE = Tail(@),
                    !.op = "recv", !.queue_before = <<>>]
    /\ UNCHANGED bridgeFrame

\* lines 63-76: the wait times out, the get() is cancelled and a synthetic
\* frame is returned; a frame put meanwhile stays in the queue
RecvTimeout ==
    /\ bridge.pc = "on" /\ bridge.rpc = "waiting"
    /\ bridge.synthetic < BridgeMaxSynthetic
    /\ bridge' = [bridge EXCEPT !.rpc = "idle", !.synthetic = @ + 1,
                                !.op = "recv", !.queue_before = <<>>]
    /\ UNCHANGED bridgeFrame

NextBridge ==
    \/ Framepipe
    \/ RecvGet
    \/ RecvWake
    \/ RecvTimeout

SpecBridge == InitBridge /\ [][NextBridge]_vars

(* ------------------------------ claims --------------------------------- *)
\* the lifecycle state of the engine, read off the worker's position and
\* the two flags
Phase ==
    IF wpc = "idle" THEN "Idle"
    ELSE IF wpc \in {"clear", "open"} THEN "Running"
    ELSE IF wpc \in LoopPcs /\ running /\ ~closedEvt THEN "Running"
    ELSE "Stopping"

\* C1: once a stop() or close() call has written a flag while recognize() is
\* in its loop, recognize() eventually returns (every read and callback
\* returns: weak fairness of the worker's steps).
C1_StopEndsLoop ==
    (wpc \in LoopPcs /\ (~running \/ closedEvt)) ~> (wpc = "idle")

\* a stop() has cleared _running in the middle of an iteration
C1_Witness ==
    /\ wpc = "callback"
    /\ ~running
    /\ \E c \in Ctrl : cpc[c] = "stop_evt"

\* C2: the frame source acquired by a recognize() call is open throughout
\* the loop and released exactly once before the call returns, on every
\* exit path and whatever stop()/close() calls run beside it.
C2_ReleasedOnce ==
    /\ acq <= 1
    /\ rel <= acq
    /\ wpc \in LoopPcs \cup {"fin_release"} => (acq = 1 /\ rel = 0 /\ capOpen)
    /\ wpc \in {"fin_running", "fin_event"} => (acq = 1 /\ rel = 1 /\ ~capOpen)
    /\ wpc = "idle" => (rel = acq /\ ~capOpen)

\* on_frame raised on a frame with a known label (on_gesture did not run)
\* while a close() call was in progress, and the finally block has released
\* the source once
C2_Witness ==
    /\ wpc = "fin_running"
    /\ args.on_gesture /\ label \in Range(gestures)
    /\ cbCount = 1 /\ ogCount = 0
    /\ rel = 1
    /\ \E c \in Ctrl : cpc[c] = "close_win"

C4_ClosedIsTerminal ==
    closeCalled =>
        ~(wpc \in {"process", "callback", "on_gesture"} /\ running /\ ~closedEvt)

\* C4 as amended: the lifecycle is the cycle Idle -> Running -> Stopping ->
\* Idle and nothing else; it has no terminal state, also after close().
C4_Lifecycle ==
    [][Phase' # Phase =>
         <<Phase, Phase'>> \in {<<"Idle", "Running">>,
                                <<"Running", "Stopping">>,
                                <<"Stopping", "Idle">>}]_vars

\* a recognize() call made after close() is Running and hands a frame to
\* its callback
C4_Witness ==
    /\ closeCalled
    /\ Phase = "Running"
    /\ wpc = "callback"
    /\ args.callback

\* C5: stop() and close() never raise, can always take their next step
\* whatever the loop is doing, and only ever move the flags towards
\* (_running = False, event set): a call made when the flags are already in
\* the state a first call leaves changes nothing.
C5_StopCloseIdempotent ==
    /\ [](\A c \in Ctrl : cpc[c] \in {"idle", "stop_evt", "close_evt", "close_win"})
    /\ [](\A c \in Ctrl : ENABLED CtrlStep(c))
    /\ [][(\E c \in Ctrl : cpc'[c] # cpc[c]) =>
            /\ running' => running
            /\ closedEvt => closedEvt'
            /\ (~running /\ closedEvt) => (~running' /\ closedEvt')]_vars

\* before any recognize() call, a close() has returned and a further close()
\* has written both flags again
C5_Witness ==
    /\ wpc = "idle"
    /\ acq = 0
    /\ closeCalled
    /\ \E c \in Ctrl : cpc[c] = "close_win"
    /\ ~running /\ closedEvt

\* C6: a read that yields no sample goes straight back to the loop test,
\* with the stored result, the flags and the frame source untouched and no
\* callback invoked.
C6_NoSampleSkips ==
    [][(wpc = "read" /\ wpc' # "read" /\ ~ret') =>
          /\ wpc' = "while"
          /\ last_result' = last_result
          /\ cbCount' = 0 /\ ogCount' = 0
          /\ running' = running /\ closedEvt' = closedEvt
          /\ capOpen']_vars

\* a failed read after a frame has been processed in the same call
C6_Witness ==
    /\ wpc = "while"
    /\ ~ret
    /\ label \notin {None, "No hand"}
    /\ last_result # NoResult
    /\ running /\ ~closedEvt

\* C7 as stated: when the frame source has failed for good while the loop
\* runs, recognize() releases and returns without stop() or close().
C7_DeadSourceEndsLoop ==
    (srcDead /\ wpc \in LoopPcs) ~> (wpc = "idle")

\* C8: get_last_result() is None until a frame has been processed and is the
\* result of the most recently processed frame from then on; inside a
\* callback it returns the tuple the callback was passed.
C8_LastResult ==
    /\ get_last_result = lastFrame
    /\ cbView # NoView => (cbView.seen = cbView.arg /\ cbView.arg # NoResult)

\* on_gesture has just looked at get_last_result()
C8_Witness ==
    /\ wpc = "show"
    /\ ogCount = 1
    /\ cbView.seen = lastFrame
    /\ lastFrame # NoResult

\* the set-based reading of "best" and "second": the largest entry, and the
\* largest entry once one occurrence of the best is put aside
BestOf(v) == CHOOSE x \in Range(v) : \A y \in Range(v) : y <= x
SecondOf(v) ==
    IF Len(v) = 1 THEN 0
    ELSE LET i == CHOOSE k \in DOMAIN v : v[k] = BestOf(v)
             rest == {v[k] : k \in DOMAIN v \ {i}}
         IN  CHOOSE x \in rest : \A y \in rest : y <= x
FirstBest(v) == CHOOSE i \in DOMAIN v : v[i] = BestOf(v) /\ \A j \in 1..(i - 1) : v[j] # BestOf(v)

\* C9: without meta classifier the label is "unknown" if best < 0.8, else
\* "unknown" if best - second < 0.15, else the gesture at argmax; both
\* comparisons are strict.
C9_FallbackRule ==
    (arb.pc = "out" /\ ~arb.has_meta) =>
        /\ arb.label =
             (IF BestOf(arb.gp) < 80 THEN Unknown
              ELSE IF BestOf(arb.gp) - SecondOf(arb.gp) < 15 THEN Unknown
              ELSE arb.gs[FirstBest(arb.gp)])
        /\ arb.gp = <<90, 50, 30>> => arb.label = "fire"
        /\ arb.gp = <<85, 80, 10>> => arb.label = Unknown
        /\ arb.gp = <<60, 10, 10>> => arb.label = Unknown
        /\ arb.gp = <<80, 65, 10>> => arb.label = "fire"
        /\ arb.gp = <<90, 90>> => arb.label = Unknown
        /\ arb.gp = <<80>> => arb.label = "fire"

\* best = 0.8 with margin 0.15 is accepted
C9_Witness ==
    /\ arb.pc = "out"
    /\ ~arb.has_meta
    /\ arb.gp = <<65, 80, 10>>
    /\ arb.label = "ice"

\* C10: with a meta classifier the label follows the argmax i of the meta
\* distribution: "unknown" exactly when i is the extra class, otherwise the
\* i-th gesture, so it is always one of gestures + ["unknown"].
C10_LearnedRule ==
    (arb.pc = "out" /\ arb.has_meta) =>
        LET i == FirstBest(arb.mo)
            n == Len(arb.gs)
        IN  /\ Len(arb.mo) = n + 1
            /\ (arb.label = Unknown) <=> (i = n + 1)
            /\ i <= n => arb.label = arb.gs[i]
            /\ arb.label \in Range(arb.gs) \cup {Unknown}
            /\ arb.meta_probs = arb.mo

\* the last gesture wins the meta distribution
C10_Witness ==
    /\ arb.pc = "out"
    /\ arb.has_meta
    /\ arb.gs = <<"fire", "ice", "projectile">>
    /\ arb.mo = <<10, 10, 70, 10>>
    /\ arb.label = "projectile"

\* C11: the engine exists whether or not the meta classifier loaded, no step
\* changes which arbiter it has, and on an engine built without a meta
\* classifier every processed frame is labelled by the rule-based arbiter
\* (the probabilities reported as meta_probs are the per-gesture ones).
C11_ArbiterFixed ==
    [][ /\ meta_classifier' = meta_classifier
        /\ gestures' = gestures
        /\ (wpc = "process" /\ wpc' = "callback" /\ ~meta_classifier) =>
              /\ label' = FallbackDecide(gestures, gesture_probs')
              /\ meta_probs' = gesture_probs' ]_vars

\* an engine built without a meta classifier, in a recognize() run that
\* follows a close(), has labelled a frame with the rule-based arbiter
C11_Witness ==
    /\ ~meta_classifier
    /\ closeCalled
    /\ wpc = "callback"
    /\ gesture_probs = <<10, 10>>
    /\ label = Unknown
    /\ meta_probs = <<10, 10>>

\* C12: the gesture list is the directories of the dataset root other than
\* "metaclassifier", in listing order; construction succeeds exactly when
\* every one of them has a model file, and then holds a model for each;
\* otherwise the load error reaches the caller and no engine exists.
C12_ModelPerGesture ==
    ctor.pc \in {"built", "raised"} =>
        LET dirs == { e.name : e \in { x \in Range(ctor.root.listing) :
                                         x.isdir /\ x.name # Reserved } }
        IN  /\ (ctor.pc = "built") <=> (dirs \subseteq ctor.root.model_files)
            /\ ctor.pc = "built" =>
                  /\ Range(ctor.engine.gestures) = dirs
                  /\ Len(ctor.engine.gestures) = Cardinality(dirs)
                  /\ Reserved \notin Range(ctor.engine.gestures)
                  /\ ctor.engine.models = dirs
            /\ ctor.pc = "raised" => ctor.engine.raised

\* "ice" has no model file although "fire" has one and the meta classifier
\* would load: construction raised
C12_Witness ==
    /\ ctor.pc = "raised"
    /\ ctor.root.listing = <<[name |-> "fire", isdir |-> TRUE],
                             [name |-> Reserved, isdir |-> TRUE],
                             [name |-> "ice", isdir |-> TRUE]>>
    /\ ctor.root.model_files = {"fire"}
    /\ ctor.root.meta_ok

\* the landmark count of the i-th file of the audited directory
AuditCount(i) == count_nonzero_landmarks(Content(audit.files[i]))

\* the samples of the audited directory as it was when the call began
AuditSamples(P) == { i \in P : IsNpy(audit.files[i]) }

\* C13: health_check returns the first verdict that applies, in the order
\* empty, zeros (zero_count/total > 0.05), landmarks (mean < 5),
\* inconsistent (std > 6), healthy; the boolean is TRUE only for healthy;
\* all comparisons are strict: 2 zero samples of 20 give "zeros", 1 of 20
\* does not.
C13_HealthVerdict ==
    audit.pc = "checked" =>
        LET S == AuditSamples(audit.present)
            n == Cardinality(S)
            z == Cardinality({ i \in S : AuditCount(i) = 0 })
            sum == SumOver(S, audit.files, 1)
            \* n^2 * variance
            nnvar == n * SumOver(S, audit.files, 2) - sum * sum
            v == audit.verdict[2]
        IN  /\ v \in {"empty", "zeros", "landmarks", "inconsistent", "healthy"}
            /\ (v = "empty") <=> (n = 0)
            /\ (v = "zeros") <=> (n > 0 /\ 20 * z > n)
            /\ (v = "landmarks") <=> (n > 0 /\ 20 * z <= n /\ sum < 5 * n)
            /\ (v = "inconsistent") <=>
                  (n > 0 /\ 20 * z <= n /\ sum >= 5 * n /\ nnvar > 36 * n * n)
            /\ audit.verdict[1] <=> (v = "healthy")
            /\ (n = 20 /\ z = 2) => v = "zeros"
            /\ (n = 20 /\ z = 1) => v # "zeros"

\* one all-zero sample among 20: the ratio is exactly 0.05 and the
\* directory is healthy
C13_Witness ==
    /\ audit.pc = "checked"
    /\ audit.files = Copies("zero", 1) \o Copies("h18", 19)
    /\ audit.verdict = <<TRUE, "healthy">>

\* C14: prune tries every sample whose landmark count is <= max_landmarks
\* (corrupt samples count 0) and nothing else, a failed deletion does not
\* stop it, the files gone are exactly those whose deletion succeeded and
\* their number is returned; with no failure no sample with count <=
\* max_landmarks is left and a second prune that follows returns 0.
C14_Prune ==
    audit.pc = "pruned" =>
        LET few == { i \in AuditSamples(audit.start) : AuditCount(i) <= audit.max }
            gone == audit.start \ audit.present
        IN  /\ audit.tried = few
            /\ audit.present \subseteq audit.start
            /\ gone \subseteq few
            /\ audit.deleted_count = Cardinality(gone)
            /\ audit.failed <=> (gone # few)
            /\ ~audit.failed =>
                  \A i \in AuditSamples(audit.present) : AuditCount(i) > audit.max
            /\ (audit.round = 2 /\ ~audit.failed1) => audit.deleted_count = 0

\* a first prune at max_landmarks = 4 removed an all-zero sample, an
\* unreadable one and the 4-landmark sample, left the rest, and the second
\* prune has returned 0
C14_Witness ==
    /\ audit.pc = "pruned"
    /\ audit.round = 2
    /\ ~audit.failed1
    /\ audit.max = 4
    /\ audit.files = <<"zero", "h4", "h6", "unreadable", "notes">>
    /\ audit.present = {3, 5}
    /\ audit.deleted_count = 0

\* C15: a flat input of 126 numbers gives 84 features and one of 63 gives
\* 42; a flat input of any other length raises and gives no output.
C15_Shapes ==
    (prep.pc = "out" /\ prep.points.ndim = 1) =>
        LET n == Len(prep.points.data)
        IN  /\ n = 126 => (~prep.out.raised /\ Len(prep.out.num) = 84)
            /\ n = 63 => (~prep.out.raised /\ Len(prep.out.num) = 42)
            /\ n \notin {126, 63} => (prep.out.raised /\ prep.out.num = <<>>)

\* a flat input of 84 numbers, the length of a feature vector, is refused
C15_Witness ==
    /\ prep.pc = "out"
    /\ prep.points.ndim = 1
    /\ Len(prep.points.data) = 84
    /\ prep.out.raised

\* the input has all its points over the first one in x and y
PrepDegenerate ==
    LET pw == PointWidth(prep.points)
    IN  \A i \in DOMAIN prep.points.data :
            (i - 1) % pw < 2 => prep.points.data[i] = prep.points.data[((i - 1) % pw) + 1]

\* C16: when all points equal the first one (the all-zero sample included)
\* the output is the zero vector of the expected length, nothing is divided
\* by zero, and in every other sample the first output point is (0, 0).
C16_Degenerate ==
    (prep.pc = "out" /\ ~prep.out.raised) =>
        LET pw == PointWidth(prep.points)
            o == prep.out
        IN  /\ ~o.nan
            /\ o.den2 > 0
            /\ Len(o.num) = 2 * (Len(prep.points.data) \div pw)
            /\ PrepDegenerate => \A i \in DOMAIN o.num : o.num[i] = 0
            /\ ~PrepDegenerate =>
                  /\ o.num[1] = 0 /\ o.num[2] = 0
                  /\ \E i \in DOMAIN o.num : o.num[i] # 0

\* the all-zero two-hand sample gives 84 zeros
C16_Witness ==
    /\ prep.pc = "out"
    /\ prep.points = ArrayOf(1, 0, 126, "zero")
    /\ ~prep.out.raised /\ ~prep.out.nan
    /\ prep.out.num = [i \in 1..84 |-> 0]

\* equality of two outputs as vectors of reals num[i] / sqrt(den2)
SameOutput(a, b) ==
    /\ a.raised = b.raised
    /\ a.nan = b.nan
    /\ Len(a.num) = Len(b.num)
    /\ \A i \in DOMAIN a.num :
          /\ (a.num[i] > 0) = (b.num[i] > 0)
          /\ (a.num[i] < 0) = (b.num[i] < 0)
          /\ a.num[i] * a.num[i] * b.den2 = b.num[i] * b.num[i] * a.den2

ValidStored(files) ==
    Cardinality({ i \in DOMAIN files :
                    /\ IsNpy(files[i])
                    /\ LET f == Content(files[i])
                       IN  ~f.raised /\ Len(f.data) = 126 })

\* P: valid samples of the target gesture
BuildP == ValidStored(build.dirs[build.gesture_name])

\* N: valid samples of all the other gestures
BuildN ==
    SumOverSet(Range(build.all_gestures) \ {build.gesture_name},
               [g \in Range(build.all_gestures) |-> ValidStored(build.dirs[g])])

C19_SamplesNeverFatal ==
    build.pc \notin {"raised", "meta_raised"}

\* C20: the build fails with the no-samples error exactly when its sample
\* set is empty, and it does fail for a gesture without valid stored
\* samples in a dataset without other gestures.
C20_EmptyDataset ==
    build.pc \in {"done", "empty"} =>
        /\ (build.pc = "empty") <=> (Len(build.samples) = 0)
        /\ (BuildP = 0 /\ Len(build.all_gestures) = 1) => build.pc = "empty"

\* C21: training of the meta classifier stops early exactly when its
\* combined training set (real samples and synthetic unknown samples) holds
\* fewer than two distinct labels; it then returns without raising and
\* leaves meta_classifier.pth as it was, absent or of an earlier run; a set
\* with two or more labels is trained on and saved
C21_AbortBelowTwo ==
    /\ train.pc \in {"aborted", "fit", "saved"}
         => ((train.pc = "aborted") <=> (Cardinality(train.y_meta) < 2))
    /\ train.pc = "aborted" => train.artifact = train.before
    /\ train.pc = "saved" => train.artifact = "fresh"

\* a run over gestures without one valid sample stops next to the artifact
\* of an earlier run
C21_Witness ==
    /\ train.pc = "aborted"
    /\ train.gestures # <<>>
    /\ train.before = "stale"
    /\ train.y_meta = {Len(train.gestures)}

\* C22: once a stop() or close() call has set the closed event while the
\* loop of recognize() is in progress, no further iteration starts: the
\* request stays set, the iteration in progress invokes on_frame and
\* on_gesture at most once in all, and neither is invoked once recognize()
\* has returned
C22_AtMostOneIteration ==
    [][/\ (closedEvt /\ wpc \notin {"idle", "clear"})
            => /\ wpc # "read" => wpc' # "read"
               /\ closedEvt'
               /\ cbCount' <= 1 /\ ogCount' <= 1
       /\ wpc = "idle" => (cbCount' = 0 /\ ogCount' = 0)]_vars

\* a stop() has returned during an iteration, which then ran its two
\* callbacks once each and is about to leave the loop
C22_Witness ==
    /\ wpc = "show"
    /\ closedEvt /\ ~running
    /\ \A c \in Ctrl : cpc[c] = "idle"
    /\ ~closeCalled
    /\ cbCount = 1 /\ ogCount = 1

\* C23: a stop() that has returned is never lost: the recognize() call it
\* raced with, whether it had begun or not, returns without another stop()
C23_StopNeverLost ==
    (stopReturned = "yes" /\ wpc # "idle") ~> (wpc = "idle")

\* C24: any two consecutive labels in gesture_queue were put there at
\* least GESTURE_DEBOUNCE_TIME apart, whatever their values
C24_Debounced ==
    game.pc = "on" =>
        \A i \in 1..(Len(game.gesture_queue) - 1) :
            game.gesture_queue[i + 1].at - game.gesture_queue[i].at
                >= GESTURE_DEBOUNCE_TIME

\* C25: at most one gesture worker thread is alive at any time
C25_OneWorker ==
    game.pc = "on" => Cardinality({ w \in Workers : IsAlive(w) }) <= 1

\* C26: once stop_gesture_thread has returned and until the thread is
\* started again, every worker either has ended or is in a loop whose
\* recognizer has been told to stop, and gesture_queue is and stays empty
C26_StoppedForGood ==
    (game.pc = "on" /\ game.lastOp = "stop" /\ game.mpc = "idle") =>
        /\ game.gesture_queue = <<>>
        /\ \A w \in Workers :
             IsAlive(w) => (game.wk[w] = "loop" /\ ~game.rec_running[w])

\* the length of the longest suffix of q, of 1 to MAX_SPELL_LENGTH entries,
\* that is some spell's recipe when letter case is ignored; 0 if none is
LongestMatch(spells, q) ==
    LET ns == { n \in 1..Min(Len(q), MAX_SPELL_LENGTH(spells)) :
                  \E i \in DOMAIN spells :
                      LowerSeq(spells[i].recipe) = LowerSeq(LastN(q, n)) }
    IN  IF ns = {} THEN 0 ELSE CHOOSE n \in ns : \A m \in ns : m <= n

\* C27: a command sequence that starts empty and is changed only by
\* append_command_sequence and try_cast_spell_from_sequence never holds two
\* equal adjacent entries
C27_NoRepeat ==
    spell.pc = "on" =>
        \A i \in 1..(Len(spell.command_sequence) - 1) :
            spell.command_sequence[i] # spell.command_sequence[i + 1]

\* an append of the last entry of a sequence of three entries, which left
\* the sequence as it was
C27_Witness ==
    /\ spell.pc = "on" /\ spell.op = "append"
    /\ Len(spell.command_sequence) = 3
    /\ spell.command_sequence = spell.last.sequence_before

Ascending(q) == \A i, j \in DOMAIN q : i < j => q[i] < q[j]

\* C30: FRAME_QUEUE never holds more than 4 frames; when a decoded frame
\* arrives and the queue is full the oldest frame is dropped and the new
\* one enqueued, so the newest pushed frame is in the queue after the
\* handler's step; frames reach recv() in arrival order
C30_BoundedNewestFirstOut ==
    bridge.pc = "on" =>
        LET q == bridge.FRAME_QUEUE
        IN  /\ Len(q) <= FRAME_QUEUE_MAXSIZE
            /\ bridge.op = "push" =>
                 /\ q # <<>> /\ q[Len(q)] = bridge.received
                 /\ q = (IF Len(bridge.queue_before) = FRAME_QUEUE_MAXSIZE
                         THEN Tail(bridge.queue_before)
                         ELSE bridge.queue_before) \o <<bridge.received>>
            /\ Ascending(bridge.delivered \o q)

\* a frame arrived at a full queue after some frame had been delivered
C30_Witness ==
    /\ bridge.pc = "on" /\ bridge.op = "push"
    /\ Len(bridge.queue_before) = FRAME_QUEUE_MAXSIZE
    /\ bridge.delivered # <<>>
    /\ bridge.FRAME_QUEUE[1] = bridge.queue_before[2]

====
